---- MODULE Spec2Model ----
(***************************************************************************)
(* Prediction-and-validation engine of agile-prediction-mvp:               *)
(* SimilarityEngine, SequenceMapper and RecommendationEngine over a        *)
(* read-only History Store (DataProcessor.team_histories).                 *)
(*                                                                         *)
(* Numbers.  A maturity value is level/MaxLevel with level in 0..MaxLevel  *)
(* (DataProcessor.process divides the raw 0..3 score by 3.0); the model    *)
(* keeps the integer level.  A cosine similarity is kept in fixed point,   *)
(* in units of 1/SimScale.  Scores are kept as exact fractions             *)
(* (numerator, denominator), so ties between practices are exact ties.     *)
(***************************************************************************)
EXTENDS Integers, Sequences, FiniteSets, TLC

\* ------------------------------------------------------------------ bounds
MaxMonth == 3
SimScale == 100
MaxTopN == 2
MaxK == 2
MaxFreq == 3

\* ------------------------------------------------------- program constants
MaxLevel == 3
max_months_ahead == 3
SeqTopN == 3
ExplainK == 5
ExplainRecent == 3
DefaultTopN == 2
DefaultK == 19
DefaultRecent == 3

practices == <<"P1", "P2", "P3">>
NP == Len(practices)
PIdx == 1..NP

Months == 1..MaxMonth
Levels == 0..MaxLevel
Vectors == [PIdx -> Levels]
NoData == <<>>

\* the order of first appearance of the team names in the data; a store holds
\* a prefix of them
TeamOrder == <<"A", "B", "C", "D", "E", "F", "G", "H", "I", "J">>
\* the teams of the small stores
TeamNames == {TeamOrder[i] : i \in 1..3}

VARIABLES store, transition_matrix, practice_improvement_freq, learned,
          sequence_cache, ret, bt, opt, _cancelled, worker, request

vars == <<store, transition_matrix, practice_improvement_freq, learned,
          sequence_cache, ret, bt, opt, _cancelled, worker, request>>

\* the variables of a running backtest or search
ctl == <<bt, opt, _cancelled, worker>>

\* ----------------------------------------------------------- generic helpers
RECURSIVE SumTo(_, _)
SumTo(f, n) == IF n = 0 THEN 0 ELSE f[n] + SumTo(f, n - 1)

SeqSum(s) == SumTo(s, Len(s))

RECURSIVE MaxTo(_, _)
MaxTo(f, n) == IF n = 0 THEN 0
               ELSE LET r == MaxTo(f, n - 1) IN IF f[n] > r THEN f[n] ELSE r

Range(s) == {s[i] : i \in DOMAIN s}

Take(s, n) == IF n >= Len(s) THEN s ELSE SubSeq(s, 1, n)

IndexOf(s, x) == CHOOSE i \in DOMAIN s : s[i] = x

\* practices.index(practice)
PracticeIdx(p) == IndexOf(practices, p)

\* ----------------------------------------------------------- History Store
\* month in history
HasMonth(history, m) == m \in DOMAIN history /\ history[m] # NoData

\* team_name in self.team_histories
TeamKnown(st, t) ==
    t \in DOMAIN st /\ \E m \in DOMAIN st[t] : HasMonth(st[t], m)

get_all_teams(st) == SelectSeq(TeamOrder, LAMBDA t : TeamKnown(st, t))

\* the months a store may hold, in ascending order
LastMonth == MaxMonth + 3
MonthSeq == [i \in 1..LastMonth |-> i]

get_all_months(st) ==
    SelectSeq(MonthSeq, LAMBDA m : \E t \in DOMAIN st : HasMonth(st[t], m))

\* sorted(history.keys())
HistoryMonths(history) == SelectSeq(MonthSeq, LAMBDA m : HasMonth(history, m))

\* ------------------------------------------------------- Similarity Engine
Dot(a, b) == SumTo([j \in PIdx |-> a[j] * b[j]], NP)

ISqrt(x) == CHOOSE r \in 0..SimScale : r * r <= x /\ (r + 1) * (r + 1) > x

\* sklearn cosine_similarity: a zero vector is left unnormalised, giving 0
cosine_similarity(a, b) ==
    IF Dot(a, a) = 0 \/ Dot(b, b) = 0 THEN 0
    ELSE ISqrt((SimScale * SimScale * Dot(a, b) * Dot(a, b))
               \div (Dot(a, a) * Dot(b, b)))

\* the (historical_month, team) pairs in the order of the two nested loops
CandidatePairs(past_months, all_teams) ==
    [i \in 1..(Len(past_months) * Len(all_teams)) |->
        [month |-> past_months[((i - 1) \div Len(all_teams)) + 1],
         team  |-> all_teams[((i - 1) % Len(all_teams)) + 1]]]

SkipTargetMut(team, target_team) == FALSE

SkipTarget(team, target_team) == team = target_team

PastMonthsMut(all_months, target_month) ==
    SelectSeq(all_months, LAMBDA m : m <= target_month)

PastMonths(all_months, target_month) ==
    SelectSeq(all_months, LAMBDA m : m < target_month)

\* the similarity of the target vector to every candidate that has a vector
ScoredPairs(st, target_vector, pairs) ==
    [i \in DOMAIN pairs |->
        [team |-> pairs[i].team,
         month |-> pairs[i].month,
         has |-> HasMonth(st[pairs[i].team], pairs[i].month),
         similarity |->
             IF HasMonth(st[pairs[i].team], pairs[i].month)
             THEN cosine_similarity(target_vector,
                                    st[pairs[i].team][pairs[i].month])
             ELSE 0]]

KeptPairs(scored, target_team, min_similarity) ==
    SelectSeq(scored, LAMBDA c :
        /\ ~SkipTarget(c.team, target_team)
        /\ c.has
        /\ c.similarity >= min_similarity)

SimilarityTuples(kept) ==
    [i \in DOMAIN kept |->
        [team |-> kept[i].team, similarity |-> kept[i].similarity,
         month |-> kept[i].month]]

AllSimilarities(st, target_team, target_month, min_similarity) ==
    SimilarityTuples(
        KeptPairs(ScoredPairs(st, st[target_team][target_month],
                              CandidatePairs(PastMonths(get_all_months(st),
                                                        target_month),
                                             get_all_teams(st))),
                  target_team, min_similarity))

BetterMut(new, old) == new.similarity < old.similarity

Better(new, old) == new.similarity > old.similarity

\* team_best_similarity: one entry per team, in first-insertion order
RECURSIVE Dedup(_, _, _)
Dedup(all, i, acc) ==
    IF i > Len(all) THEN acc
    ELSE LET e == all[i]
             pos == {j \in DOMAIN acc : acc[j].team = e.team}
         IN IF pos = {} THEN Dedup(all, i + 1, Append(acc, e))
            ELSE LET j == CHOOSE x \in pos : TRUE
                 IN IF Better(e, acc[j])
                    THEN Dedup(all, i + 1, [acc EXCEPT ![j] = e])
                    ELSE Dedup(all, i + 1, acc)

\* list.sort(key, reverse=True): stable, descending; works on the keys and
\* yields the positions of the elements in sorted order
RECURSIVE InsertDesc(_, _, _)
InsertDesc(sorted, i, keys) ==
    IF sorted = <<>> THEN <<i>>
    ELSE IF keys[Head(sorted)] >= keys[i]
         THEN <<Head(sorted)>> \o InsertDesc(Tail(sorted), i, keys)
         ELSE <<i>> \o sorted

RECURSIVE SortIdxDesc(_, _)
SortIdxDesc(keys, n) ==
    IF n = 0 THEN <<>>
    ELSE InsertDesc(SortIdxDesc(keys, n - 1), n, keys)

Permute(s, idx) == [i \in 1..Len(s) |-> s[idx[i]]]

SortDesc(s, keys) == Permute(s, SortIdxDesc(keys, Len(s)))

Ok(v) == [err |-> "none", val |-> v]
Fail(e) == [err |-> e, val |-> <<>>]

\* similar_teams.sort(key=lambda x: x[1], reverse=True)
SortBySimilarity(unique) ==
    SortDesc(unique, [i \in DOMAIN unique |-> unique[i].similarity])

TopSimilar(all, k) ==
    IF all = <<>> THEN Fail("NoSimilarTeams")
    ELSE Ok(Take(SortBySimilarity(Dedup(all, 1, <<>>)), k))

find_similar_teams(st, target_team, target_month, k, min_similarity) ==
    IF ~TeamKnown(st, target_team) THEN Fail("TeamNotFound")
    ELSE IF ~HasMonth(st[target_team], target_month) THEN Fail("NoDataForMonth")
    ELSE IF PastMonths(get_all_months(st), target_month) = <<>>
         THEN Fail("NoPastMonths")
    ELSE TopSimilar(AllSimilarities(st, target_team, target_month,
                                    min_similarity), k)

\* the error taxonomy of the specification
ErrClass(e) ==
    CASE e \in {"TeamNotFound", "NoDataForMonth"} -> "NotFound"
      [] e \in {"FirstMonth", "NotLearned"} -> "TemporalConstraintViolation"
      [] e \in {"NoPastMonths", "NoSimilarTeams"} -> "InsufficientData"
      [] OTHER -> "none"

\* --------------------------------------------------------- Sequence Mapper
PracticeNames == Range(practices)

\* defaultdict(Counter): a Counter is the sequence of its (key, count) items in
\* insertion order; a practice with no item is not a key of the matrix
EmptyMatrix == [p \in PracticeNames |-> <<>>]

\* Counter()
EmptyFreq == [p \in PracticeNames |-> 0]

\* if nxt > curr: improved_practices.append(practice_name)
ImprovedPractices(current_vector, next_vector) ==
    SelectSeq(practices, LAMBDA p :
        next_vector[PracticeIdx(p)] > current_vector[PracticeIdx(p)])

\* counter[curr] += 1
CounterInc(counter, curr) ==
    IF \E j \in DOMAIN counter : counter[j].to = curr
    THEN [j \in DOMAIN counter |->
             IF counter[j].to = curr
             THEN [to |-> curr, count |-> counter[j].count + 1]
             ELSE counter[j]]
    ELSE Append(counter, [to |-> curr, count |-> 1])

\* the body of the loop over one consecutive month pair of one team
LearnPair(m, current_vector, next_vector) ==
    LET improved_practices == ImprovedPractices(current_vector, next_vector)
        n == Len(improved_practices)
    IN [tm |-> [p \in PracticeNames |->
                  IF \E j \in 1..(n - 1) : improved_practices[j] = p
                  THEN LET j == CHOOSE x \in 1..(n - 1) :
                                    improved_practices[x] = p
                       IN CounterInc(m.tm[p], improved_practices[j + 1])
                  ELSE m.tm[p]],
        freq |-> [p \in PracticeNames |->
                  IF p \in Range(improved_practices) THEN m.freq[p] + 1
                  ELSE m.freq[p]]]

RECURSIVE LearnTeamPairs(_, _, _, _)
LearnTeamPairs(m, history, team_months, i) ==
    IF i >= Len(team_months) THEN m
    ELSE LearnTeamPairs(LearnPair(m, history[team_months[i]],
                                  history[team_months[i + 1]]),
                        history, team_months, i + 1)

RECURSIVE LearnTeams(_, _, _, _, _)
LearnTeams(m, st, teams, t, available_months) ==
    IF t > Len(teams) THEN m
    ELSE LET history == st[teams[t]]
             team_months == SelectSeq(available_months,
                                      LAMBDA mo : HasMonth(history, mo))
         IN LearnTeams(LearnTeamPairs(m, history, team_months, 1),
                       st, teams, t + 1, available_months)

AvailableMonthsMut(months, max_month) ==
    SelectSeq(months, LAMBDA m : m <= max_month)

\* available_months = [m for m in months if m < max_month]
AvailableMonths(months, max_month) ==
    SelectSeq(months, LAMBDA m : m < max_month)

\* the state of a SequenceMapper object
MapperState(tm, freq, l, cache) ==
    [transition_matrix |-> tm, practice_improvement_freq |-> freq,
     learned |-> l, sequence_cache |-> cache]

CachePutMut(cache, key, snapshot) == [c \in {key} |-> snapshot]

\* self._sequence_cache[max_month] = snapshot
CachePut(cache, key, snapshot) ==
    [c \in DOMAIN cache \cup {key} |->
        IF c = key THEN snapshot ELSE cache[c]]

\* self._sequence_cache[max_month] = (copies of the learned counters)
LearnedAndCached(ms, max_month, m) ==
    MapperState(m.tm, m.freq, TRUE, CachePut(ms.sequence_cache, max_month, m))

LearnFresh(ms, st, max_month, available_months) ==
    IF Len(available_months) < 2
    THEN LearnedAndCached(ms, max_month,
                          [tm |-> EmptyMatrix, freq |-> EmptyFreq])
    ELSE LearnedAndCached(ms, max_month,
             LearnTeams([tm |-> EmptyMatrix, freq |-> EmptyFreq], st,
                        get_all_teams(st), 1, available_months))

learn_sequences_up_to_month(ms, st, max_month) ==
    IF max_month \in DOMAIN ms.sequence_cache
    THEN MapperState(ms.sequence_cache[max_month].tm,
                     ms.sequence_cache[max_month].freq, TRUE,
                     ms.sequence_cache)
    ELSE LearnFresh(ms, st, max_month,
                    AvailableMonths(get_all_months(st), max_month))

\* learn_sequences adds to the counters the object already holds
LearnedAll(ms, m) == MapperState(m.tm, m.freq, TRUE, ms.sequence_cache)

learn_sequences(ms, st) ==
    LearnedAll(ms, LearnTeams([tm |-> ms.transition_matrix,
                               freq |-> ms.practice_improvement_freq],
                              st, get_all_teams(st), 1, get_all_months(st)))

\* Counter.most_common(top_n) followed by count / total
get_typical_next_practices(ms, practice, top_n) ==
    IF ~ms.learned THEN Fail("NotLearned")
    ELSE LET counter == ms.transition_matrix[practice]
             total == SeqSum([j \in DOMAIN counter |-> counter[j].count])
             transitions ==
                 Take(SortDesc(counter,
                               [j \in DOMAIN counter |-> counter[j].count]),
                      top_n)
         IN IF counter = <<>> \/ total = 0 THEN Ok(<<>>)
            ELSE Ok([j \in DOMAIN transitions |->
                        [practice |-> transitions[j].to,
                         num |-> transitions[j].count, den |-> total]])

\* ---------------------------------------------------- Recommendation Engine
\* the months of a neighbour that the forward scan compares with its vector at
\* historical_month: the loop over months_ahead with its two breaks
ScanWindowMut(similar_months, hist_idx, current_month) ==
    SelectSeq(similar_months, LAMBDA m :
        \E i \in DOMAIN similar_months :
            /\ similar_months[i] = m
            /\ i > hist_idx /\ i <= hist_idx + max_months_ahead)

ScanWindow(similar_months, hist_idx, current_month) ==
    SelectSeq(similar_months, LAMBDA m :
        \E i \in DOMAIN similar_months :
            /\ similar_months[i] = m
            /\ i > hist_idx /\ i <= hist_idx + max_months_ahead
            /\ m <= current_month)

MonthsFrom(similar_months, historical_month, current_month) ==
    ScanWindow(similar_months, IndexOf(similar_months, historical_month),
               current_month)

ScanMonths(similar_history, historical_month, current_month) ==
    MonthsFrom(HistoryMonths(similar_history), historical_month, current_month)

\* best_improvements of one neighbour: per practice the largest increase over
\* the scanned months, 0 when the practice is no key of the dict
BestOver(similar_history, historical_month, scan) ==
    [p \in PracticeNames |->
        MaxTo([i \in DOMAIN scan |->
                 similar_history[scan[i]][PracticeIdx(p)]
                   - similar_history[historical_month][PracticeIdx(p)]],
              Len(scan))]

\* what the loop body does for one neighbour
ScanNeighbour(similar_history, nb, current_month, scan) ==
    [team |-> nb.team, similarity |-> nb.similarity, month |-> nb.month,
     scan |-> scan,
     best |-> BestOver(similar_history, nb.month, scan)]

ScanNeighbours(st, similar_teams, current_month) ==
    [i \in DOMAIN similar_teams |->
        ScanNeighbour(st[similar_teams[i].team], similar_teams[i],
                      current_month,
                      ScanMonths(st[similar_teams[i].team],
                                 similar_teams[i].month, current_month))]

\* similarity_scores, in units of 1/(SimScale * MaxLevel)
SimilarityScores(scans) ==
    [p \in PracticeNames |->
        SeqSum([i \in DOMAIN scans |-> scans[i].similarity * scans[i].best[p]])]

\* the keys of similarity_scores
SimilarityKeys(scans) ==
    {p \in PracticeNames : \E i \in DOMAIN scans : scans[i].best[p] > 0}

ScannedSet(scans) ==
    UNION {{[team |-> scans[i].team, similar_at_month |-> scans[i].month,
             month |-> m] : m \in Range(scans[i].scan)} : i \in DOMAIN scans}

\* recently_improved_practices
RecentlyImprovedIn(history, months_list, current_month, current_idx, months_to_check) ==
    {p \in PracticeNames :
        \E months_back \in 1..months_to_check :
            history[current_month][PracticeIdx(p)]
              > history[months_list[current_idx - months_back + 1]]
                       [PracticeIdx(p)]}

RecentWindow(history, months_list, current_month, current_idx, recent_improvements_months) ==
    RecentlyImprovedIn(history, months_list, current_month, current_idx,
                       IF recent_improvements_months < current_idx
                       THEN recent_improvements_months ELSE current_idx)

RecentlyImproved(history, current_month, recent_improvements_months) ==
    RecentWindow(history, HistoryMonths(history), current_month,
                 IndexOf(HistoryMonths(history), current_month) - 1,
                 recent_improvements_months)

\* get_typical_next_practices(recently_improved, top_n=3) for every practice
\* in recently_improved_practices, the empty list for the others
TypicalNext(ms, recent) ==
    [p \in PracticeNames |->
        IF p \in recent THEN get_typical_next_practices(ms, p, SeqTopN).val
        ELSE <<>>]

\* the common denominator of the transition probabilities that are added up
RECURSIVE SeqDen(_, _)
SeqDen(typ, i) ==
    IF i = 0 THEN 1
    ELSE (IF typ[practices[i]] # <<>> THEN typ[practices[i]][1].den ELSE 1)
           * SeqDen(typ, i - 1)

\* sequence_scores[p] * D
SequenceScoresOver(typ, D) ==
    [p \in PracticeNames |->
        SeqSum([i \in PIdx |->
            SeqSum([j \in DOMAIN typ[practices[i]] |->
                IF typ[practices[i]][j].practice = p
                THEN typ[practices[i]][j].num
                       * (D \div typ[practices[i]][j].den)
                ELSE 0])])]

SequenceScoresOf(typ) == SequenceScoresOver(typ, SeqDen(typ, NP))

SequenceScores(ms, recent) == SequenceScoresOf(TypicalNext(ms, recent))

\* the value of the name similarity_weight after the loop over similar_teams,
\* whose loop variable has the same name as the parameter
WeightAfterLoopMut(similarity_weight, similar_teams) == similarity_weight

WeightAfterLoop(similarity_weight, similar_teams) ==
    IF similar_teams = <<>> THEN similarity_weight
    ELSE similar_teams[Len(similar_teams)].similarity

FirstMonthCheckMut(all_months, current_month) == FALSE

\* lines 125-128: the check behind "if not allow_first_three_months"
FirstMonthCheck(all_months, current_month) ==
    Len(all_months) >= 2 /\ current_month = all_months[1]

MaxedOutMut(current_level) == FALSE

\* if current_level >= 1.0: continue
MaxedOut(current_level) == current_level >= MaxLevel

RecFail(e, ms) ==
    [err |-> e, ms |-> ms, items |-> <<>>, similar_teams |-> <<>>,
     scanned |-> {}, weight |-> 0, norm_sim |-> <<>>, norm_seq |-> <<>>,
     practices_scores |-> <<>>, model |-> <<>>]

TruncateMut(recommendations, top_n) == recommendations

\* recommendations[:top_n]
Truncate(recommendations, top_n) == Take(recommendations, top_n)

\* step 5: filter, normalise by max_score, sort, truncate
RankItems(recommendations, top_n) ==
    Truncate(SortDesc(recommendations,
                      [i \in DOMAIN recommendations |->
                          recommendations[i].score_num]),
             top_n)

FilterItems(kept, N, max_score, current_scores, top_n) ==
    RankItems([i \in DOMAIN kept |->
                 [practice |-> kept[i],
                  score_num |-> IF max_score > 0 THEN N[kept[i]] ELSE 0,
                  score_den |-> IF max_score > 0 THEN max_score ELSE 1,
                  current_level |-> current_scores[PracticeIdx(kept[i])]]],
              top_n)

Rank(all_practices, N, current_scores, top_n) ==
    FilterItems(SelectSeq(all_practices, LAMBDA p :
                    ~MaxedOut(current_scores[PracticeIdx(p)])),
                N,
                MaxTo([i \in DOMAIN all_practices |-> N[all_practices[i]]],
                      Len(all_practices)),
                current_scores, top_n)

\* step 4: practices_scores[p] in units of 1/(SimScale * denS * denQ), where
\* normalized_similarity[p] = S[p] / denS and normalized_sequence[p] = Q[p] / denQ
Combine(ms, scans, similar_teams, S, Q, denS, denQ, w, all_practices, current_scores, top_n) ==
    [err |-> "none", ms |-> ms,
     items |-> Rank(all_practices,
                    [p \in PracticeNames |->
                        w * S[p] * denQ + (SimScale - w) * Q[p] * denS],
                    current_scores, top_n),
     similar_teams |-> similar_teams,
     scanned |-> ScannedSet(scans),
     weight |-> w,
     norm_sim |-> [p \in Range(all_practices) |-> [num |-> S[p], den |-> denS]],
     norm_seq |-> [p \in Range(all_practices) |-> [num |-> Q[p], den |-> denQ]],
     practices_scores |-> [p \in Range(all_practices) |->
                              w * S[p] * denQ + (SimScale - w) * Q[p] * denS],
     model |-> [tm |-> ms.transition_matrix,
                freq |-> ms.practice_improvement_freq]]

Normalise(ms, scans, similar_teams, S, Q, max_similarity, max_sequence, w, all_practices, current_scores, top_n) ==
    Combine(ms, scans, similar_teams, S, Q,
            IF max_similarity > 0 THEN max_similarity ELSE 1,
            IF max_sequence > 0 THEN max_sequence ELSE 1,
            w, all_practices, current_scores, top_n)

Score(ms, scans, similar_teams, S, simKeys, Q, w, order, current_scores, top_n) ==
    Normalise(ms, scans, similar_teams, S, Q,
              MaxTo([i \in PIdx |-> S[practices[i]]], NP),
              MaxTo([i \in PIdx |-> Q[practices[i]]], NP),
              w,
              SelectSeq(order, LAMBDA p : p \in simKeys \/ Q[p] > 0),
              current_scores, top_n)

ScoreScans(ms, scans, similar_teams, recent, similarity_weight, order, current_scores, top_n) ==
    Score(ms, scans, similar_teams, SimilarityScores(scans),
          SimilarityKeys(scans), SequenceScores(ms, recent),
          WeightAfterLoop(similarity_weight, similar_teams), order,
          current_scores, top_n)

\* steps 2-5 of recommend, once the neighbours are known
RecommendScores(ms, st, history, current_month, top_n, similarity_weight, recent_improvements_months, similar_teams, order) ==
    ScoreScans(ms, ScanNeighbours(st, similar_teams, current_month),
               similar_teams,
               RecentlyImproved(history, current_month,
                                recent_improvements_months),
               similarity_weight, order, history[current_month], top_n)

RecommendWith(ms1, sim, st, history, current_month, top_n, similarity_weight, recent_improvements_months, order) ==
    IF sim.err # "none" THEN RecFail(sim.err, ms1)
    ELSE IF sim.val = <<>> THEN RecFail("NoSimilarTeams", ms1)
    ELSE RecommendScores(ms1, st, history, current_month, top_n,
                         similarity_weight, recent_improvements_months,
                         sim.val, order)

recommend(ms, st, target_team, current_month, top_n, k_similar, allow_first_three_months, similarity_weight, recent_improvements_months, min_similarity_threshold, order) ==
    IF ~TeamKnown(st, target_team) THEN RecFail("TeamNotFound", ms)
    ELSE IF ~HasMonth(st[target_team], current_month)
         THEN RecFail("NoDataForMonth", ms)
    ELSE IF /\ ~allow_first_three_months
            /\ FirstMonthCheck(get_all_months(st), current_month)
         THEN RecFail("FirstMonth", ms)
    ELSE RecommendWith(learn_sequences_up_to_month(ms, st, current_month),
                       find_similar_teams(st, target_team, current_month,
                                          k_similar, min_similarity_threshold),
                       st, st[target_team], current_month, top_n,
                       similarity_weight, recent_improvements_months, order)

\* the months of one neighbour whose vector get_recommendation_explanation
\* reads: the scan stops at the first month that shows an improvement
ComparedMonths(similar_history, historical_month, scan, practice) ==
    SelectSeq(scan, LAMBDA m :
        \A i \in DOMAIN scan :
            (scan[i] < m) =>
                similar_history[scan[i]][PracticeIdx(practice)]
                  <= similar_history[historical_month][PracticeIdx(practice)])

\* the evidence of one neighbour: the months compared and whether the last of
\* them shows an improvement of the practice
Evidence(similar_history, nb, compared, practice) ==
    [team |-> nb.team, similarity |-> nb.similarity, month |-> nb.month,
     scan |-> compared,
     improved |->
        /\ compared # <<>>
        /\ similar_history[compared[Len(compared)]][PracticeIdx(practice)]
             > similar_history[nb.month][PracticeIdx(practice)]]

ExplainNeighbours(st, similar_teams, current_month, practice) ==
    [i \in DOMAIN similar_teams |->
        Evidence(st[similar_teams[i].team], similar_teams[i],
                 ComparedMonths(st[similar_teams[i].team],
                                similar_teams[i].month,
                                ScanMonths(st[similar_teams[i].team],
                                           similar_teams[i].month,
                                           current_month),
                                practice),
                 practice)]

ExplainFail(e, ms) ==
    [err |-> e, ms |-> ms, similar_teams |-> <<>>, scanned |-> {},
     similar_teams_list |-> <<>>, has_sequence_boost |-> FALSE,
     typical_sequence_follows |-> "None"]

\* improved_teams_dict.values(): the neighbours whose scan found an improvement
ImprovedTeams(hits) ==
    [j \in DOMAIN hits |->
        [team |-> hits[j].team,
         month |-> hits[j].scan[Len(hits[j].scan)],
         similarity |-> hits[j].similarity,
         similar_at_month |-> hits[j].month]]

ExplainResult(ms1, similar_teams, evidence, typ, sequence_info, practice) ==
    [err |-> "none", ms |-> ms1,
     similar_teams |-> similar_teams,
     scanned |-> ScannedSet(evidence),
     similar_teams_list |->
         ImprovedTeams(SelectSeq(evidence, LAMBDA e : e.improved)),
     has_sequence_boost |->
         \E r \in PracticeNames :
            \E j \in DOMAIN typ[r] : typ[r][j].practice = practice,
     typical_sequence_follows |->
         IF sequence_info # <<>> THEN sequence_info[1].practice ELSE "None"]

ExplainWith(ms1, sim, st, history, current_month, practice, recent_improvements_months) ==
    IF sim.err # "none" THEN ExplainFail(sim.err, ms1)
    ELSE ExplainResult(ms1, sim.val,
                       ExplainNeighbours(st, sim.val, current_month, practice),
                       TypicalNext(ms1,
                                   RecentlyImproved(history, current_month,
                                       recent_improvements_months)),
                       get_typical_next_practices(ms1, practice, 1).val,
                       practice)

ExplainLearned(ms1, st, target_team, current_month, practice, recent_improvements_months) ==
    IF ~TeamKnown(st, target_team) THEN ExplainFail("TeamNotFound", ms1)
    ELSE IF ~HasMonth(st[target_team], current_month)
         THEN ExplainFail("NoDataForMonth", ms1)
    ELSE ExplainWith(ms1,
                     find_similar_teams(st, target_team, current_month,
                                        ExplainK, 0),
                     st, st[target_team], current_month, practice,
                     recent_improvements_months)

get_recommendation_explanation(ms, st, target_team, current_month, practice, recent_improvements_months) ==
    ExplainLearned(learn_sequences_up_to_month(ms, st, current_month), st,
                   target_team, current_month, practice,
                   recent_improvements_months)

\* ----------------------------------------------------------- Backtest Engine
\* a number that Python holds as a float, kept as an exact fraction in lowest
\* terms with a positive denominator
RECURSIVE Gcd(_, _)
Gcd(a, b) == IF b = 0 THEN a ELSE Gcd(b, a % b)

Reduce(n, d, g) == [num |-> n \div g, den |-> d \div g]

Frac(n, d) == Reduce(n, d, Gcd(IF n < 0 THEN -n ELSE n, d))

FracAdd(a, b) == Frac(a.num * b.den + b.num * a.den, a.den * b.den)

FracSub(a, b) == Frac(a.num * b.den - b.num * a.den, a.den * b.den)

FracLess(a, b) == a.num * b.den < b.num * a.den

RECURSIVE FracSum(_, _)
FracSum(s, n) == IF n = 0 THEN Frac(0, 1) ELSE FracAdd(FracSum(s, n - 1), s[n])

\* the minimum number of months of run_backtest and the period of the
\* cancellation check inside the loop over teams
MinBacktestMonths == 4
FirstTestIndex == 3
PollEveryTeams == 10

\* month_correct / month_predictions if month_predictions > 0 else 0
MonthAccuracy(month_correct, month_predictions) ==
    IF month_predictions > 0 THEN Frac(month_correct, month_predictions)
    ELSE Frac(0, 1)

MeanAccuracyMut(total, n) == total

\* sum(r["accuracy"] for r in per_month_results) / len(per_month_results)
MeanAccuracy(total, n) == Frac(total.num, total.den * n)

OverallAccuracy(per_month_results) ==
    IF per_month_results = <<>> THEN Frac(0, 1)
    ELSE MeanAccuracy(FracSum([i \in DOMAIN per_month_results |->
                                  per_month_results[i].accuracy],
                              Len(per_month_results)),
                      Len(per_month_results))

\* a * (a - l) * ... with k factors: l^k times the falling factorial of a / l
RECURSIVE Falling(_, _, _)
Falling(a, l, k) == IF k = 0 THEN 1 ELSE a * Falling(a - l, l, k - 1)

RECURSIVE Pow(_, _)
Pow(l, k) == IF k = 0 THEN 1 ELSE l * Pow(l, k - 1)

\* comb(a / l, top_n) / comb(n, top_n), where comb is 0 when top_n > a / l
CombRatio(a, l, top_n, n) ==
    IF top_n * l > a THEN Frac(0, 1)
    ELSE Frac(Falling(a, l, top_n), Pow(l, top_n) * Falling(n, 1, top_n))

OneMinus(f) == Frac(f.den - f.num, f.den)

\* min(1.0, (k_avg / n) * top_n) with k_avg = s / l
SimpleBaseline(s, l, top_n, n) ==
    IF s * top_n >= l * n THEN Frac(1, 1) ELSE Frac(s * top_n, l * n)

\* the values random_baseline can take. scipy is not pinned, and comb with
\* exact=True treats a non-integer first argument differently from release to
\* release: it truncates it, or computes the binomial in floating point, or
\* raises ValueError, in which case the fallback of the except clause applies
RandomBaselines(s, l, top_n, n) ==
    IF l = 0 \/ n <= 0 THEN {Frac(0, 1)}
    ELSE IF s > 0 /\ top_n > 0 /\ n * l >= s /\ n >= top_n
         THEN IF s % l = 0
              THEN {OneMinus(CombRatio(n * l - s, l, top_n, n))}
              ELSE {OneMinus(CombRatio(n * l - s, l, top_n, n)),
                    OneMinus(CombRatio(((n * l - s) \div l) * l, l, top_n, n)),
                    SimpleBaseline(s, l, top_n, n)}
    ELSE {SimpleBaseline(s, l, top_n, n)}

TooFewMonthsMut(months) == Len(months) < MinBacktestMonths - 1

\* "if len(months) < 4"
TooFewMonths(months) == Len(months) < MinBacktestMonths

\* the dict returned on fewer than 4 months
BacktestError == [error |-> "InsufficientData", cancelled |-> FALSE]

\* the dict built at the end of run_backtest and by _build_partial_results
ResultDict(b, overall_accuracy, random_baseline, cancelled) ==
    [status |-> "success",
     per_month_results |-> b.per_month_results,
     total_predictions |-> b.total_predictions,
     correct_predictions |-> b.total_correct,
     overall_accuracy |-> overall_accuracy,
     random_baseline |-> random_baseline,
     improvement_gap |->
         IF b.imp_cnt > 0 /\ NP > 0
         THEN FracSub(overall_accuracy, random_baseline) ELSE Frac(0, 1),
     improvement_factor |->
         IF random_baseline.num > 0
         THEN Frac(overall_accuracy.num * random_baseline.den,
                   overall_accuracy.den * random_baseline.num)
         ELSE Frac(0, 1),
     teams_tested |-> Cardinality(b.all_teams_tested),
     avg_improvements_per_case |->
         IF b.imp_cnt > 0 THEN Frac(b.imp_sum, b.imp_cnt) ELSE Frac(0, 1),
     cancelled |-> cancelled]

\* the results run_backtest can return from the running totals b
BacktestResults(b, cancelled) ==
    {ResultDict(b, OverallAccuracy(b.per_month_results), rb, cancelled) :
        rb \in RandomBaselines(b.imp_sum, b.imp_cnt, b.cfg.top_n, NP)}

\* months[test_month_idx], the index counting from 0
TestMonth(b) == b.months[b.test_month_idx + 1]

ActualImprovedMut(history, team_months, test_idx) ==
    {p \in PracticeNames :
        \E d \in 0..1 :
            /\ test_idx + d <= Len(team_months)
            /\ history[team_months[test_idx + d]][PracticeIdx(p)]
                 > history[team_months[test_idx - 1]][PracticeIdx(p)]}

\* actual_improved: the practices whose level in test_month or in one of the
\* team's next two months is above the level in prev_month
ActualImproved(history, team_months, test_idx) ==
    {p \in PracticeNames :
        \E d \in 0..2 :
            /\ test_idx + d <= Len(team_months)
            /\ history[team_months[test_idx + d]][PracticeIdx(p)]
                 > history[team_months[test_idx - 1]][PracticeIdx(p)]}

\* a call of recommend as the loop over teams made it, with what it returned
RecommendCall(b, team, prev_month, out) ==
    [team |-> team, test_month |-> TestMonth(b), baseline |-> prev_month,
     err |-> out.err,
     recommended |-> {out.items[i].practice : i \in DOMAIN out.items},
     similar_teams |-> out.similar_teams, scanned |-> out.scanned]

\* the body of the loop over teams from the call of recommend on; w holds the
\* mapper and the running totals
Scored(w, team, prev_month, actual_improved, out) ==
    IF out.err # "none"
    THEN [ms |-> out.ms,
          b |-> [w.b EXCEPT !.imp_sum = @ + Cardinality(actual_improved),
                            !.imp_cnt = @ + 1,
                            !.recommends = @ + 1,
                            !.calls = Append(@, RecommendCall(w.b, team,
                                                              prev_month,
                                                              out))]]
    ELSE [ms |-> out.ms,
          b |-> [w.b EXCEPT
                   !.imp_sum = @ + Cardinality(actual_improved),
                   !.imp_cnt = @ + 1,
                   !.recommends = @ + 1,
                   !.calls = Append(@, RecommendCall(w.b, team, prev_month,
                                                     out)),
                   !.month_predictions = @ + 1,
                   !.total_predictions = @ + 1,
                   !.teams_tested_this_month = @ \cup {team},
                   !.all_teams_tested = @ \cup {team},
                   !.month_correct =
                       IF \E i \in DOMAIN out.items :
                             out.items[i].practice \in actual_improved
                       THEN @ + 1 ELSE @,
                   !.total_correct =
                       IF \E i \in DOMAIN out.items :
                             out.items[i].practice \in actual_improved
                       THEN @ + 1 ELSE @]]

EvalCase(w, st, team, prev_month, actual_improved) ==
    IF actual_improved = {} THEN w
    ELSE Scored(w, team, prev_month, actual_improved,
                recommend(w.ms, st, team, prev_month, w.b.cfg.top_n,
                          w.b.cfg.k_similar, TRUE, w.b.cfg.similarity_weight,
                          w.b.cfg.recent_improvements_months,
                          w.b.cfg.min_similarity_threshold, w.b.order))

EvalAtMut(w, st, team, team_months, test_idx) ==
    EvalCase(w, st, team, team_months[test_idx],
             ActualImproved(st[team], team_months, test_idx))

\* "if test_idx <= 0: continue", prev_month = team_months[test_idx - 1]
EvalAt(w, st, team, team_months, test_idx) ==
    IF test_idx <= 1 THEN w
    ELSE EvalCase(w, st, team, team_months[test_idx - 1],
                  ActualImproved(st[team], team_months, test_idx))

\* one iteration of the loop over teams, after the cancellation check
EvalTeam(w, st, team) ==
    IF ~HasMonth(st[team], TestMonth(w.b)) THEN w
    ELSE EvalAt(w, st, team, HistoryMonths(st[team]),
                IndexOf(HistoryMonths(st[team]), TestMonth(w.b)))

\* what one iteration of the loop over teams added to the counters
Logged(before, w, team) ==
    [ms |-> w.ms,
     b |-> [w.b EXCEPT !.cases = Append(@,
              [team |-> team, test_month |-> TestMonth(before),
               predictions |-> w.b.month_predictions
                                 - before.month_predictions,
               correct |-> w.b.month_correct - before.month_correct,
               total_predictions |-> w.b.total_predictions
                                       - before.total_predictions,
               total_correct |-> w.b.total_correct - before.total_correct,
               sizes |-> w.b.imp_cnt - before.imp_cnt,
               calls |-> w.b.recommends - before.recommends])]]

\* the iterations for teams[from..to]
RECURSIVE EvalTeams(_, _, _, _)
EvalTeams(w, st, from, to) ==
    IF from > to THEN w
    ELSE EvalTeams(Logged(w.b, EvalTeam(w, st, w.b.teams[from]),
                          w.b.teams[from]),
                   st, from + 1, to)

RunEndMut(team_count, n_teams) == n_teams

\* the last team that is reached without another cancellation check when the
\* loop goes on after team_count teams
RunEnd(team_count, n_teams) ==
    IF PollEveryTeams * ((team_count + 1) \div PollEveryTeams)
         + PollEveryTeams - 1 < n_teams
    THEN PollEveryTeams * ((team_count + 1) \div PollEveryTeams)
           + PollEveryTeams - 1
    ELSE n_teams

\* per_month_results.append({...})
MonthRecord(b) ==
    [month |-> TestMonth(b),
     train_months |-> SubSeq(b.months, 1, b.test_month_idx),
     predictions |-> b.month_predictions,
     correct |-> b.month_correct,
     accuracy |-> MonthAccuracy(b.month_correct, b.month_predictions),
     teams_tested |-> Cardinality(b.teams_tested_this_month)]

EndMonth(b) ==
    [b EXCEPT !.per_month_results = Append(@, MonthRecord(b)),
              !.test_month_idx = @ + 1,
              !.pc = "month_top"]

\* the state of the loops after the teams up to team_count have been handled
AfterTeams(w, team_count) ==
    IF team_count = Len(w.b.teams)
    THEN [ms |-> w.ms, b |-> EndMonth([w.b EXCEPT !.team_count = team_count])]
    ELSE [ms |-> w.ms, b |-> [w.b EXCEPT !.team_count = team_count,
                                         !.pc = "poll_team"]]

RunTo(w, st, to) == AfterTeams(EvalTeams(w, st, w.b.team_count + 1, to), to)

\* the local variables of run_backtest before the loop over test months
BacktestStart(st, cfg, order, check, caller) ==
    [pc |-> "month_top", cfg |-> cfg, order |-> order, check |-> check,
     caller |-> caller,
     months |-> get_all_months(st), teams |-> get_all_teams(st),
     test_month_idx |-> FirstTestIndex, team_count |-> 0,
     per_month_results |-> <<>>,
     total_predictions |-> 0, total_correct |-> 0, all_teams_tested |-> {},
     imp_sum |-> 0, imp_cnt |-> 0,
     month_predictions |-> 0, month_correct |-> 0,
     teams_tested_this_month |-> {},
     polls |-> <<>>, learns |-> <<>>, recommends |-> 0,
     calls |-> <<>>, cases |-> <<>>]

\* month_predictions = 0 ... team_count = 0, after the mapper has learned
StartTeams(b) ==
    [b EXCEPT !.learns = Append(@, TestMonth(b)),
              !.month_predictions = 0, !.month_correct = 0,
              !.teams_tested_this_month = {}, !.team_count = 0,
              !.pc = "teams"]

\* "if cancellation_check and cancellation_check()": the call is recorded
Polled(b, at, team_count, c) ==
    IF b.check = "none" THEN b
    ELSE [b EXCEPT !.polls = Append(@, [at |-> at,
                                        test_month_idx |-> b.test_month_idx,
                                        team_count |-> team_count,
                                        result |-> c])]

\* ------------------------------------------------------ Optimization Engine
\* the cutoffs of the early stop and the length of all_results
ExcellentGap == Frac(3, 10)
GoodGap == Frac(1, 5)
HalfTested == Frac(1, 2)
MaxAllResults == 50

\* the keyword defaults of find_optimal_config
DefaultMinAccuracy == Frac(2, 5)
DefaultEarlyStopThreshold == Frac(1, 4)
DefaultEarlyStopMinTested == Frac(1, 2)

\* a value of a float parameter on the scale of the similarity values
Scaled(tenths) == (tenths * SimScale) \div 10

\* the number of combinations: the product of the lengths of the ranges
TotalCombinations(r) ==
    Len(r.top_n) * Len(r.similarity_weight) * Len(r.k_similar)
      * Len(r.lookahead) * Len(r.recent) * Len(r.min_sim)

\* the position, counting from 1, that the j-th tuple of itertools.product
\* (j counting from 0) takes in a range of length len when the ranges after it
\* have "later" tuples: the last range varies fastest
Digit(j, later, len) == 1 + ((j \div later) % len)

ProductAt(r, j) ==
    [top_n |-> r.top_n[Digit(j, Len(r.similarity_weight) * Len(r.k_similar)
                                  * Len(r.lookahead) * Len(r.recent)
                                  * Len(r.min_sim), Len(r.top_n))],
     similarity_weight |->
         r.similarity_weight[Digit(j, Len(r.k_similar) * Len(r.lookahead)
                                        * Len(r.recent) * Len(r.min_sim),
                                   Len(r.similarity_weight))],
     k_similar |-> r.k_similar[Digit(j, Len(r.lookahead) * Len(r.recent)
                                          * Len(r.min_sim), Len(r.k_similar))],
     similar_teams_lookahead_months |->
         r.lookahead[Digit(j, Len(r.recent) * Len(r.min_sim),
                           Len(r.lookahead))],
     recent_improvements_months |->
         r.recent[Digit(j, Len(r.min_sim), Len(r.recent))],
     min_similarity_threshold |-> r.min_sim[Digit(j, 1, Len(r.min_sim))]]

\* config.update(fixed_params)
ApplyFixed(config, fixed_params) ==
    [f \in DOMAIN config \cup DOMAIN fixed_params |->
        IF f \in DOMAIN fixed_params THEN fixed_params[f] ELSE config[f]]

\* list(generate_parameter_combinations(...))
generate_parameter_combinations(r, fixed_params) ==
    [i \in 1..TotalCombinations(r) |->
        ApplyFixed(ProductAt(r, i - 1), fixed_params)]

\* the dict appended to valid_results and kept as best_config
ResultEntry(config, result) ==
    [config |-> config,
     model_accuracy |-> result.overall_accuracy,
     random_baseline |-> result.random_baseline,
     improvement_gap |-> result.improvement_gap,
     improvement_factor |-> result.improvement_factor,
     total_predictions |-> result.total_predictions,
     correct_predictions |-> result.correct_predictions]

\* "if improvement_gap > best_improvement_gap", which starts at -inf
NewBestMut(o, improvement_gap) ==
    \/ o.best_config = <<>>
    \/ ~FracLess(improvement_gap, o.best_config[1].improvement_gap)

NewBest(o, improvement_gap) ==
    \/ o.best_config = <<>>
    \/ FracLess(o.best_config[1].improvement_gap, improvement_gap)

\* the early-stopping rule applied to a new best after idx + 1 of total
\* combinations
EarlyStop(o, improvement_gap, tested_fraction) ==
    IF FracLess(o.early_stop_threshold, improvement_gap)
    THEN \/ ~FracLess(tested_fraction, o.early_stop_min_tested)
         \/ FracLess(ExcellentGap, improvement_gap)
    ELSE /\ FracLess(GoodGap, improvement_gap)
         /\ ~FracLess(tested_fraction, HalfTested)

\* the keys of valid_results.sort(key=improvement_gap, reverse=True) as
\* integers over a common denominator
GapKeys(valid_results, D) ==
    [i \in DOMAIN valid_results |->
        valid_results[i].improvement_gap.num
          * (D \div valid_results[i].improvement_gap.den)]

RECURSIVE GapDen(_, _)
GapDen(valid_results, n) ==
    IF n = 0 THEN 1
    ELSE valid_results[n].improvement_gap.den * GapDen(valid_results, n - 1)

SortByGap(valid_results) ==
    SortDesc(valid_results,
             GapKeys(valid_results, GapDen(valid_results, Len(valid_results))))

\* "idx + 1 if cancelled or early_stopped else total_combinations"
TestedCount(o) ==
    IF o.cancelled \/ o.early_stopped THEN o.idx + 1
    ELSE Len(o.combinations)

\* the results dictionary, without and with the name of the saved file
ResultsDict(o, sorted) ==
    [optimal_config |->
         IF o.best_config # <<>> THEN o.best_config[1].config ELSE "None",
     model_accuracy |->
         IF o.best_config # <<>> THEN o.best_config[1].model_accuracy
         ELSE Frac(0, 1),
     random_baseline |->
         IF o.best_config # <<>> THEN o.best_config[1].random_baseline
         ELSE Frac(0, 1),
     improvement_gap |->
         IF o.best_config # <<>> THEN o.best_config[1].improvement_gap
         ELSE Frac(0, 1),
     improvement_factor |->
         IF o.best_config # <<>> THEN o.best_config[1].improvement_factor
         ELSE Frac(0, 1),
     total_predictions |->
         IF o.best_config # <<>> THEN o.best_config[1].total_predictions
         ELSE 0,
     correct_predictions |->
         IF o.best_config # <<>> THEN o.best_config[1].correct_predictions
         ELSE 0,
     total_combinations_tested |-> TestedCount(o),
     total_combinations_available |-> Len(o.combinations),
     valid_combinations |-> Len(sorted),
     all_results |-> Take(sorted, MaxAllResults),
     early_stopped |-> o.early_stopped,
     cancelled |-> o.cancelled]

\* save_results returns a path, or None when writing the file fails
Saved(results, results_file) ==
    IF results_file THEN results @@ [results_file |-> "results/optimization"]
    ELSE results

\* the local variables of find_optimal_config before its loop
SearchStart(req, via, flag) ==
    [pc |-> "iter", via |-> via, engine |-> req.engine,
     min_accuracy |-> req.min_accuracy,
     early_stop_threshold |-> req.early_stop_threshold,
     early_stop_min_tested |-> req.early_stop_min_tested,
     combinations |-> generate_parameter_combinations(req.ranges,
                                                      req.fixed_params),
     idx |-> 0, valid_results |-> <<>>, best_config |-> <<>>,
     early_stopped |-> FALSE, cancelled |-> FALSE,
     backtests |-> 0, flag_at_start |-> flag,
     cancel_while_queued |-> req.cancel_while_queued,
     cancel_while_iterating |-> FALSE, stops |-> <<>>, outcomes |-> <<>>]

\* the result of a backtest is accepted: valid_results, best_config and the
\* early stop
Accept(o, entry, is_best) ==
    [o EXCEPT !.valid_results = Append(@, entry),
              !.best_config = IF is_best THEN <<entry>> ELSE @,
              !.early_stopped =
                  is_best /\ EarlyStop(o, entry.improvement_gap,
                                       Frac(o.idx + 1, Len(o.combinations))),
              !.stops = IF is_best
                        THEN Append(@, [idx |-> o.idx,
                                        improvement_gap |->
                                            entry.improvement_gap])
                        ELSE @]

\* what run_backtest handed back for the combination at idx
Outcome(idx, result) ==
    [idx |-> idx,
     raised |-> "exception" \in DOMAIN result,
     error |-> "error" \in DOMAIN result,
     cancelled |-> "cancelled" \in DOMAIN result /\ result.cancelled,
     overall_accuracy |->
         IF "overall_accuracy" \in DOMAIN result
         THEN result.overall_accuracy ELSE Frac(0, 1)]

Noted(o, result) ==
    [o EXCEPT !.outcomes = Append(@, Outcome(o.idx, result))]

AfterBacktestMut(o, result) ==
    IF "exception" \in DOMAIN result THEN o
    ELSE IF "cancelled" \in DOMAIN result /\ result.cancelled
    THEN [o EXCEPT !.cancelled = TRUE]
    ELSE IF "error" \in DOMAIN result THEN o
    ELSE Accept(o, ResultEntry(o.combinations[o.idx + 1], result),
                NewBest(o, result.improvement_gap))

\* the body of the loop after run_backtest has returned or raised
AfterBacktest(o, result) ==
    IF "exception" \in DOMAIN result THEN o
    ELSE IF "cancelled" \in DOMAIN result /\ result.cancelled
    THEN [o EXCEPT !.cancelled = TRUE]
    ELSE IF "error" \in DOMAIN result THEN o
    ELSE IF FracLess(result.overall_accuracy, o.min_accuracy) THEN o
    ELSE Accept(o, ResultEntry(o.combinations[o.idx + 1], result),
                NewBest(o, result.improvement_gap))

Handled(o, result) == AfterBacktest(Noted(o, result), result)

\* break, or the next iteration, or the end of the loop
LoopOver(o) ==
    o.cancelled \/ o.early_stopped \/ o.idx + 1 >= Len(o.combinations)

\* -------------------------------------------------------------- the stores
\* a team history given by its vectors at months 1, 2, ...
Hist(vs) == [m \in Months |-> IF m <= Len(vs) THEN vs[m] ELSE NoData]

BaseStores == {
    \* three teams with data at every month
    [A |-> Hist(<< <<1,0,0>>, <<1,1,0>>, <<2,1,3>> >>),
     B |-> Hist(<< <<1,0,0>>, <<2,1,0>>, <<2,2,1>> >>),
     C |-> Hist(<< <<1,1,0>>, <<1,2,1>>, <<3,2,2>> >>)],
    \* the two-team, two-month scenario of the specification
    [A |-> Hist(<< <<1,0,0>>, <<1,0,0>> >>),
     B |-> Hist(<< <<1,0,0>>, <<2,0,0>> >>),
     C |-> Hist(<< >>)],
    \* a store that holds a single month
    [A |-> Hist(<< <<1,0,0>> >>),
     B |-> Hist(<< <<1,1,0>> >>),
     C |-> Hist(<< >>)] }

\* the vectors tried at the replaced entry: all practices at the same level
PerturbVectors == {[j \in PIdx |-> l] : l \in Levels}

\* a base store, or a base store with one (team, month) entry replaced
Stores ==
    {[b EXCEPT ![t][m] = v] :
        b \in BaseStores, t \in TeamNames, m \in Months,
        v \in PerturbVectors \cup {NoData}}

\* a team history given by its vectors at months 1, 2, ..., NoData where the
\* team has no row
LongHist(vs) == [m \in 1..Len(vs) |-> vs[m]]

\* ten teams over six months
BacktestBase ==
    [A |-> LongHist(<< <<1,0,0>>, <<1,1,0>>, <<2,1,0>>, <<2,2,0>>, <<2,2,1>>,
                        <<3,2,1>> >>),
     B |-> LongHist(<< <<1,0,0>>, <<2,1,0>>, <<2,2,1>>, <<3,2,1>>, <<3,2,2>>,
                        <<3,3,2>> >>),
     C |-> LongHist(<< <<1,1,0>>, <<1,2,1>>, <<2,2,2>>, <<2,2,2>>, <<3,2,2>>,
                        <<3,2,2>> >>),
     D |-> LongHist(<< <<0,0,0>>, <<1,0,0>>, <<1,1,0>>, <<1,1,1>>, <<2,1,1>>,
                        <<2,2,1>> >>),
     E |-> LongHist(<< <<1,0,0>>, <<1,0,1>>, <<1,1,1>>, <<2,1,1>>, <<2,1,1>>,
                        <<2,1,2>> >>),
     F |-> LongHist(<< <<2,1,0>>, <<2,1,0>>, <<2,2,0>>, <<2,2,0>>, <<2,2,0>>,
                        <<2,2,1>> >>),
     G |-> LongHist(<< <<0,1,0>>, <<0,1,1>>, <<1,1,1>>, <<1,2,1>>, <<1,2,2>>,
                        <<2,2,2>> >>),
     H |-> LongHist(<< <<1,0,0>>, <<1,1,0>>, <<1,1,0>>, <<2,1,0>>, <<2,1,1>>,
                        <<2,1,1>> >>),
     I |-> LongHist(<< NoData, NoData, <<1,1,0>>, <<1,1,1>>, <<2,1,1>>,
                        <<2,2,1>> >>),
     J |-> LongHist(<< <<1,0,0>>, <<1,1,0>>, <<2,1,0>>, <<2,1,1>>, <<3,1,1>>,
                        <<3,1,1>> >>)]

\* the store cut after its first n months
FirstMonths(st, n) ==
    [t \in DOMAIN st |->
        [m \in DOMAIN st[t] |-> IF m <= n THEN st[t][m] ELSE NoData]]

\* the stores run_backtest is run on: five and four months of ten teams with
\* one entry of the tenth team replaced, six months of them with and without
\* a gap in a team's history, three months of them, and the small stores
BacktestStores ==
    {[FirstMonths(BacktestBase, n) EXCEPT !["J"][m] = v] :
        n \in 4..5, m \in 4..5, v \in PerturbVectors \cup {NoData}}
    \cup {BacktestBase, [BacktestBase EXCEPT !["F"][5] = NoData]}
    \cup {FirstMonths(BacktestBase, 3)}
    \cup BaseStores

\* ------------------------------------------------------------- the inputs
TeamInputs == TeamNames \cup {"Zed"}
Cutoffs == 1..(MaxMonth + 1)
MinSimilarities == {0, (3 * SimScale) \div 4}
Weights == {(6 * SimScale) \div 10, SimScale}
RecentMonths == {1, 3}
Reverse(s) == [i \in DOMAIN s |-> s[Len(s) + 1 - i]]
\* the orders in which a set of practice names may be iterated
Orders == {o \in [PIdx -> PracticeNames] : Range(o) = PracticeNames}

Xor(a, b) == (a + b) % 2
Pick(bit, S) == IF bit = 0 THEN CHOOSE x \in S : \A y \in S : x <= y
                ELSE CHOOSE x \in S : \A y \in S : x >= y

\* the keyword arguments of recommend (similar_teams_lookahead_months is
\* accepted and never read by the body): every pair of values of two arguments
\* occurs together in some call (an orthogonal array over three bits)
RecommendInputs ==
    {[top_n |-> Pick(a, {1, MaxTopN}),
      k_similar |-> Pick(b, {1, MaxK}),
      min_similarity_threshold |-> Pick(c, MinSimilarities),
      allow_first_three_months |-> Xor(a, b) = 1,
      similar_teams_lookahead_months |-> Pick(a, {1, max_months_ahead}),
      similarity_weight |-> Pick(Xor(a, c), Weights),
      recent_improvements_months |-> Pick(Xor(b, c), RecentMonths),
      order |-> IF Xor(Xor(a, b), c) = 0 THEN practices
                ELSE Reverse(practices)] :
        a \in {0, 1}, b \in {0, 1}, c \in {0, 1}}

\* the keyword defaults of recommend
DefaultInputs ==
    [top_n |-> DefaultTopN, k_similar |-> DefaultK,
     allow_first_three_months |-> FALSE,
     similar_teams_lookahead_months |-> max_months_ahead,
     similarity_weight |-> (6 * SimScale) \div 10,
     recent_improvements_months |-> DefaultRecent,
     min_similarity_threshold |-> (3 * SimScale) \div 4,
     order |-> practices]

Mapper == MapperState(transition_matrix, practice_improvement_freq, learned,
                      sequence_cache)

SetMapper(ms) ==
    /\ transition_matrix' = ms.transition_matrix
    /\ practice_improvement_freq' = ms.practice_improvement_freq
    /\ learned' = ms.learned
    /\ sequence_cache' = ms.sequence_cache

Idle == [op |-> "idle"]
BtIdle == [pc |-> "idle"]
OptIdle == [pc |-> "idle"]
WorkerIdle == [queue |-> <<>>]
RequestIdle == [pc |-> "idle"]

\* recommend leaves the mapper as it learned it and hands out to the caller
RecommendReturns(t, m, a, out) ==
    /\ SetMapper(out.ms)
    /\ ret' = [op |-> "recommend",
               args |-> [target_team |-> t, current_month |-> m, kw |-> a],
               out |-> [out EXCEPT !.ms = <<>>]]

ExplainReturns(t, m, p, out) ==
    /\ SetMapper(out.ms)
    /\ ret' = [op |-> "get_recommendation_explanation",
               args |-> [target_team |-> t, current_month |-> m,
                         practice |-> p],
               out |-> [out EXCEPT !.ms = <<>>]]

Init ==
    /\ store \in Stores
    /\ transition_matrix = EmptyMatrix
    /\ practice_improvement_freq = EmptyFreq
    /\ learned = FALSE
    /\ sequence_cache = [c \in {} |-> 0]
    /\ ret = Idle
    /\ bt = BtIdle
    /\ opt = OptIdle
    /\ _cancelled = FALSE
    /\ worker = WorkerIdle
    /\ request = RequestIdle

FindSimilar ==
    /\ ret = Idle
    /\ UNCHANGED ctl
    /\ \E t \in TeamInputs, m \in Months, k \in 1..MaxK,
          ms \in MinSimilarities :
          ret' = [op |-> "find_similar_teams",
                  args |-> [target_team |-> t, target_month |-> m, k |-> k,
                            min_similarity |-> ms],
                  out |-> find_similar_teams(store, t, m, k, ms)]
    /\ UNCHANGED <<store, request, transition_matrix, practice_improvement_freq,
                   learned, sequence_cache>>

LearnUpTo ==
    /\ ret = Idle
    /\ UNCHANGED ctl
    /\ \E c \in Cutoffs :
          /\ SetMapper(learn_sequences_up_to_month(Mapper, store, c))
          /\ ret' = [op |-> "learn_sequences_up_to_month",
                     args |-> [max_month |-> c],
                     hit |-> c \in DOMAIN sequence_cache]
    /\ UNCHANGED <<store, request>>

LearnAll ==
    /\ ret = Idle
    /\ UNCHANGED ctl
    /\ \A p \in PracticeNames : practice_improvement_freq[p] <= MaxFreq
    /\ SetMapper(learn_sequences(Mapper, store))
    /\ ret' = [op |-> "learn_sequences"]
    /\ UNCHANGED <<store, request>>

GetTypicalNext ==
    /\ ret = Idle
    /\ UNCHANGED ctl
    /\ \E p \in PracticeNames, n \in {1, SeqTopN} :
          ret' = [op |-> "get_typical_next_practices",
                  args |-> [practice |-> p, top_n |-> n],
                  out |-> get_typical_next_practices(Mapper, p, n)]
    /\ UNCHANGED <<store, request, transition_matrix, practice_improvement_freq,
                   learned, sequence_cache>>

Recommend ==
    /\ ret = Idle
    /\ UNCHANGED ctl
    /\ \E t \in TeamInputs, m \in Months, a \in RecommendInputs :
          RecommendReturns(t, m, a,
              recommend(Mapper, store, t, m, a.top_n, a.k_similar,
                        a.allow_first_three_months, a.similarity_weight,
                        a.recent_improvements_months,
                        a.min_similarity_threshold, a.order))
    /\ UNCHANGED <<store, request>>

Explain ==
    /\ ret = Idle
    /\ UNCHANGED ctl
    /\ \E t \in TeamInputs, m \in Months, p \in PracticeNames :
          ExplainReturns(t, m, p,
              get_recommendation_explanation(Mapper, store, t, m, p,
                                             ExplainRecent))
    /\ UNCHANGED <<store, request>>

\* recommend called with its keyword defaults, as APIService.get_recommendations
\* and the CLI call it
RecommendDefaults ==
    /\ ret = Idle
    /\ UNCHANGED ctl
    /\ \E t \in TeamInputs, m \in Months :
          RecommendReturns(t, m, DefaultInputs,
              recommend(Mapper, store, t, m, DefaultTopN, DefaultK, FALSE,
                        (6 * SimScale) \div 10, DefaultRecent,
                        (3 * SimScale) \div 4, practices))
    /\ UNCHANGED <<store, request>>

\* ------------------------------------------------------------- APIService
\* the months of all_months[:2] when the store holds three months or more
FirstTwoMonths(all_available_months) ==
    IF Len(all_available_months) >= 3
    THEN {all_available_months[1], all_available_months[2]}
    ELSE {}

\* the months of a team that the UI offers for prediction
MonthsToPredict(all_months, all_available_months) ==
    IF Len(all_available_months) >= 3
    THEN SelectSeq(all_months,
                   LAMBDA m : /\ m \notin FirstTwoMonths(all_available_months)
                              /\ IndexOf(all_months, m) > 1)
    ELSE <<>>

\* None for a team that is not found, else the list
get_team_months(st, team_name) ==
    IF ~TeamKnown(st, team_name) THEN Fail("None")
    ELSE Ok(MonthsToPredict(HistoryMonths(st[team_name]),
                            get_all_months(st)))

\* get_recommendations returns an error dict before it calls recommend
ServiceError(e, ms) ==
    [error |-> e, baseline |-> 0, raised |-> "none", recommendations |-> <<>>,
     actual_improvements |-> {}, ms |-> ms]

\* ... or it calls recommend on the previous month of the team: a ValueError
\* goes up to the route, a list is returned with the validation
Served(history, months, month_to_predict_idx, out) ==
    [error |-> "none", baseline |-> months[month_to_predict_idx - 1],
     raised |-> out.err, recommendations |-> out.items,
     actual_improvements |->
         IF out.err = "none"
         THEN ActualImproved(history, months, month_to_predict_idx)
         ELSE {},
     ms |-> out.ms]

get_recommendations(ms, st, team_name, month, top_n, k_similar) ==
    IF ~TeamKnown(st, team_name) THEN ServiceError("TeamNotFound", ms)
    ELSE IF ~HasMonth(st[team_name], month)
    THEN ServiceError("NoDataForMonth", ms)
    ELSE IF month \in FirstTwoMonths(get_all_months(st))
    THEN ServiceError("FirstTwoMonths", ms)
    ELSE IF IndexOf(HistoryMonths(st[team_name]), month) = 1
    THEN ServiceError("NoPreviousMonth", ms)
    ELSE Served(st[team_name], HistoryMonths(st[team_name]),
                IndexOf(HistoryMonths(st[team_name]), month),
                recommend(ms, st, team_name,
                          HistoryMonths(st[team_name])
                              [IndexOf(HistoryMonths(st[team_name]), month)
                                 - 1],
                          top_n, k_similar, FALSE, (6 * SimScale) \div 10,
                          DefaultRecent, (3 * SimScale) \div 4, practices))

GetTeamMonths ==
    /\ ret = Idle
    /\ UNCHANGED ctl
    /\ \E t \in TeamInputs :
          ret' = [op |-> "get_team_months", args |-> [team_name |-> t],
                  out |-> get_team_months(store, t)]
    /\ UNCHANGED <<store, request, transition_matrix, practice_improvement_freq,
                   learned, sequence_cache>>

ServiceReturns(t, m, top_n, k_similar, out) ==
    /\ SetMapper(out.ms)
    /\ ret' = [op |-> "get_recommendations",
               args |-> [team_name |-> t, month |-> m, top_n |-> top_n,
                         k_similar |-> k_similar],
               out |-> [out EXCEPT !.ms = <<>>]]

GetRecommendations ==
    /\ ret = Idle
    /\ UNCHANGED ctl
    /\ \E t \in TeamInputs, m \in Months, top_n \in 1..MaxTopN,
          k_similar \in {MaxK, DefaultK} :
          ServiceReturns(t, m, top_n, k_similar,
              get_recommendations(Mapper, store, t, m, top_n, k_similar))
    /\ UNCHANGED <<store, request>>

\* the caller takes the returned value (or the raised error) and is ready for
\* its next call
Return ==
    /\ ret # Idle
    /\ ret' = Idle
    /\ UNCHANGED <<store, request, transition_matrix, practice_improvement_freq,
                   learned, sequence_cache>>
    /\ UNCHANGED ctl

\* calls into the Recommendation Engine and the Similarity Engine
Next ==
    \/ FindSimilar
    \/ Recommend
    \/ Explain
    \/ Return

Spec == Init /\ [][Next]_vars

\* calls into the Sequence Mapper, directly and through recommend
NextSeq ==
    \/ LearnUpTo
    \/ LearnAll
    \/ GetTypicalNext
    \/ RecommendDefaults
    \/ GetTeamMonths
    \/ GetRecommendations
    \/ Return

SpecSeq == Init /\ [][NextSeq]_vars

\* ------------------------------------------------- run_backtest, step by step
\* what cancellation_check() may return: no callable was given, or a callable
\* of the caller, or the optimizer's lambda that reads self._cancelled
PollsMut(b) == IF b.check = "callable" THEN BOOLEAN ELSE {FALSE}

Polls(b) ==
    IF b.check = "none" THEN {FALSE}
    ELSE IF b.check = "callable" THEN BOOLEAN
    ELSE {_cancelled}

\* run_backtest returns r: to the caller of the API, or to find_optimal_config
BtHandsOver(b, r) ==
    IF b.caller = "api"
    THEN /\ ret' = [op |-> "run_backtest",
                    args |-> [config |-> b.cfg, check |-> b.check],
                    out |-> r,
                    polls |-> b.polls, learns |-> b.learns,
                    recommends |-> b.recommends,
                    calls |-> b.calls, cases |-> b.cases,
                    improvements_per_case |-> b.imp_cnt,
                    months |-> b.months, teams |-> b.teams]
         /\ bt' = BtIdle
    ELSE /\ bt' = [pc |-> "done", result |-> r, polls |-> b.polls,
                   recommends |-> b.recommends]
         /\ ret' = ret

BtReturns(b, cancelled) ==
    \E r \in BacktestResults(b, cancelled) : BtHandsOver(b, r)

\* the loops go on from w, or the loop over test months is over
TeamsDone(w) ==
    /\ SetMapper(w.ms)
    /\ IF w.b.pc = "month_top" /\ w.b.test_month_idx >= Len(w.b.months)
       THEN BtReturns(w.b, FALSE)
       ELSE bt' = w.b /\ ret' = ret

BacktestConfigs ==
    {[top_n |-> DefaultTopN, k_similar |-> DefaultK,
      similarity_weight |-> (6 * SimScale) \div 10,
      recent_improvements_months |-> DefaultRecent,
      min_similarity_threshold |-> (3 * SimScale) \div 4],
     [top_n |-> 1, k_similar |-> MaxK, similarity_weight |-> SimScale,
      recent_improvements_months |-> 1, min_similarity_threshold |-> 0]}

\* "for test_month_idx in range(3, len(months))" is entered or has no
\* iteration
Enters(b) ==
    IF b.test_month_idx >= Len(b.months) THEN BtReturns(b, FALSE)
    ELSE bt' = b /\ ret' = ret

\* run_backtest up to the loop over test months
RunBacktest ==
    /\ ret = Idle /\ bt = BtIdle /\ opt = OptIdle
    /\ \E cfg \in BacktestConfigs, order \in {practices, Reverse(practices)},
          check \in {"none", "callable"} :
          IF TooFewMonths(get_all_months(store))
          THEN /\ ret' = [op |-> "run_backtest",
                          args |-> [config |-> cfg, check |-> check],
                          out |-> BacktestError,
                          polls |-> <<>>, learns |-> <<>>, recommends |-> 0,
                          calls |-> <<>>, cases |-> <<>>,
                          improvements_per_case |-> 0,
                          months |-> get_all_months(store),
                          teams |-> get_all_teams(store)]
               /\ bt' = bt
          ELSE Enters(BacktestStart(store, cfg, order, check, "api"))
    /\ UNCHANGED <<store, request, transition_matrix, practice_improvement_freq,
                   learned, sequence_cache, opt, _cancelled, worker>>

\* the cancellation check at the top of a test-month iteration
MonthTop ==
    /\ bt.pc = "month_top"
    /\ \E c \in Polls(bt) :
          IF c THEN BtReturns(Polled(bt, "month", 0, c), TRUE)
          ELSE /\ bt' = [Polled(bt, "month", 0, c) EXCEPT !.pc = "pre_learn"]
               /\ ret' = ret
    /\ UNCHANGED <<store, request, transition_matrix, practice_improvement_freq,
                   learned, sequence_cache, opt, _cancelled, worker>>

\* the cancellation check before learning, and learn_sequences_up_to_month
PreLearn ==
    /\ bt.pc = "pre_learn"
    /\ \E c \in Polls(bt) :
          IF c
          THEN /\ BtReturns(Polled(bt, "learn", 0, c), TRUE)
               /\ UNCHANGED <<transition_matrix, practice_improvement_freq,
                              learned, sequence_cache>>
          ELSE /\ SetMapper(learn_sequences_up_to_month(Mapper, store,
                                                       TestMonth(bt)))
               /\ bt' = StartTeams(Polled(bt, "learn", 0, c))
               /\ ret' = ret
    /\ UNCHANGED <<store, request, opt, _cancelled, worker>>

\* the loop over teams up to the next cancellation check
Teams ==
    /\ bt.pc = "teams"
    /\ \E w \in {RunTo([ms |-> Mapper, b |-> bt], store,
                       RunEnd(bt.team_count, Len(bt.teams)))} :
          TeamsDone(w)
    /\ UNCHANGED <<store, request, opt, _cancelled, worker>>

\* the cancellation check of every 10th team, and the loop going on
PollTeam ==
    /\ bt.pc = "poll_team"
    /\ \E c \in Polls(bt) :
          IF c
          THEN /\ BtReturns(Polled(bt, "team", bt.team_count + 1, c), TRUE)
               /\ UNCHANGED <<transition_matrix, practice_improvement_freq,
                              learned, sequence_cache>>
          ELSE \E w \in {RunTo([ms |-> Mapper,
                                 b |-> Polled(bt, "team", bt.team_count + 1,
                                              c)],
                                store,
                                RunEnd(bt.team_count, Len(bt.teams)))} :
                  TeamsDone(w)
    /\ UNCHANGED <<store, request, opt, _cancelled, worker>>

InitBacktest ==
    /\ store \in BacktestStores
    /\ transition_matrix = EmptyMatrix
    /\ practice_improvement_freq = EmptyFreq
    /\ learned = FALSE
    /\ sequence_cache = [c \in {} |-> 0]
    /\ ret = Idle
    /\ bt = BtIdle
    /\ opt = OptIdle
    /\ _cancelled = FALSE
    /\ worker = WorkerIdle
    /\ request = RequestIdle

\* calls of run_backtest with and without a cancellation check
NextBacktest ==
    \/ RunBacktest
    \/ MonthTop
    \/ PreLearn
    \/ Teams
    \/ PollTeam
    \/ Return

SpecBacktest == InitBacktest /\ [][NextBacktest]_vars

\* ------------------------------------------- find_optimal_config, step by step
\* the value lists of a search and its fixed parameters: the default weights
\* with one value of every other parameter, and two values of top_n with the
\* threshold fixed
SearchRanges ==
    {[ranges |-> [top_n |-> <<1>>,
                  similarity_weight |-> <<Scaled(6), Scaled(7), Scaled(8)>>,
                  k_similar |-> <<MaxK>>, lookahead |-> <<3>>,
                  recent |-> <<1>>, min_sim |-> <<0>>],
      fixed_params |-> <<>>],
     [ranges |-> [top_n |-> <<1, MaxTopN>>,
                  similarity_weight |-> <<Scaled(6)>>,
                  k_similar |-> <<MaxK>>, lookahead |-> <<3>>,
                  recent |-> <<DefaultRecent>>, min_sim |-> <<Scaled(5)>>],
      fixed_params |-> [min_similarity_threshold |-> 0]]}

\* a search over more than 50 combinations
MaxWide == 18

WideRanges ==
    [ranges |-> [top_n |-> <<1, 2, 3>>,
                 similarity_weight |-> <<Scaled(6)>>,
                 k_similar |-> [i \in 1..MaxWide |-> i + 1],
                 lookahead |-> <<3>>,
                 recent |-> <<DefaultRecent>>, min_sim |-> <<Scaled(5)>>],
     fixed_params |-> <<>>]

SearchRequest(engine, s, threshold, min_tested) ==
    [engine |-> engine, min_accuracy |-> DefaultMinAccuracy,
     early_stop_threshold |-> threshold, early_stop_min_tested |-> min_tested,
     ranges |-> s.ranges, fixed_params |-> s.fixed_params,
     cancel_while_queued |-> FALSE]

\* the requests of the /api/optimize route: the service's engine and the
\* default early stop
RouteRequests ==
    {SearchRequest("real", s, DefaultEarlyStopThreshold,
                   DefaultEarlyStopMinTested) : s \in SearchRanges}

\* direct calls of find_optimal_config, on the service's backtest engine or on
\* an engine whose run_backtest is a test double
DirectRequests ==
    RouteRequests
      \cup {SearchRequest("mock", s, threshold, min_tested) :
               s \in SearchRanges,
               threshold \in {Frac(1, 10), DefaultEarlyStopThreshold},
               min_tested \in {DefaultEarlyStopMinTested, Frac(9, 10)}}
      \cup {SearchRequest("stub", WideRanges, DefaultEarlyStopThreshold,
                          DefaultEarlyStopMinTested)}

\* what a test double of run_backtest may hand back: results of any accuracy
\* and gap, the error dict, a cancelled result, or an exception
MockResult(accuracy, improvement_gap, cancelled) ==
    [overall_accuracy |-> accuracy, random_baseline |-> Frac(1, 10),
     improvement_gap |-> improvement_gap, improvement_factor |-> Frac(2, 1),
     total_predictions |-> 10, correct_predictions |-> 6,
     cancelled |-> cancelled]

MockResults ==
    {MockResult(Frac(3, 5), g, FALSE) :
        g \in {Frac(3, 20), Frac(11, 50), Frac(7, 20)}}
      \cup {MockResult(Frac(3, 10), Frac(7, 20), FALSE),
            MockResult(Frac(3, 5), Frac(3, 20), TRUE),
            BacktestError, [exception |-> "Exception"]}

\* a test double with a scripted side effect: an error dict, an exception, a
\* result below min_accuracy, then results that are as accurate as chance
StubResult(idx) ==
    IF idx = 0 THEN BacktestError
    ELSE IF idx = 1 THEN [exception |-> "Exception"]
    ELSE [overall_accuracy |-> IF idx = 2 THEN Frac(3, 10) ELSE Frac(3, 5),
          random_baseline |-> IF idx = 2 THEN Frac(3, 10) ELSE Frac(3, 5),
          improvement_gap |-> Frac(0, 1), improvement_factor |-> Frac(1, 1),
          total_predictions |-> 10,
          correct_predictions |-> IF idx = 2 THEN 3 ELSE 6,
          cancelled |-> FALSE]

\* the number of requests that wait for the single worker of the executor
MaxQueued == 1

\* find_optimal_config returns its results dictionary
SearchReturns(o) ==
    /\ \E results_file \in BOOLEAN :
          ret' = [op |-> "find_optimal_config",
                  args |-> [min_accuracy |-> o.min_accuracy,
                            early_stop_threshold |-> o.early_stop_threshold,
                            early_stop_min_tested |->
                                o.early_stop_min_tested,
                            combinations |-> o.combinations],
                  out |-> Saved(ResultsDict(o, SortByGap(o.valid_results)),
                                results_file),
                  via |-> o.via, engine |-> o.engine,
                  valid_results |-> o.valid_results,
                  backtests |-> o.backtests, stops |-> o.stops,
                  outcomes |-> o.outcomes,
                  flag_at_start |-> o.flag_at_start,
                  cancel_while_queued |-> o.cancel_while_queued,
                  cancel_while_iterating |-> o.cancel_while_iterating]
    /\ opt' = OptIdle

\* the /api/optimize route hands the search to the executor
Optimize ==
    /\ Len(worker.queue) < MaxQueued
    /\ \E req \in RouteRequests :
          worker' = [worker EXCEPT !.queue = Append(@, req)]
    /\ UNCHANGED <<store, request, transition_matrix, practice_improvement_freq,
                   learned, sequence_cache, ret, bt, opt, _cancelled>>

\* the worker thread takes the request: find_optimal_config resets the flag
\* and builds its combinations
WorkerRuns ==
    /\ worker.queue # <<>>
    /\ ret = Idle /\ bt = BtIdle /\ opt = OptIdle
    /\ opt' = SearchStart(Head(worker.queue), "route", _cancelled)
    /\ _cancelled' = FALSE
    /\ worker' = [worker EXCEPT !.queue = Tail(@)]
    /\ UNCHANGED <<store, request, transition_matrix, practice_improvement_freq,
                   learned, sequence_cache, ret, bt>>

\* find_optimal_config called directly, up to its loop
FindOptimalConfig ==
    /\ worker.queue = <<>>
    /\ ret = Idle /\ bt = BtIdle /\ opt = OptIdle
    /\ \E req \in DirectRequests :
          opt' = SearchStart(req, "call", _cancelled)
    /\ _cancelled' = FALSE
    /\ UNCHANGED <<store, request, transition_matrix, practice_improvement_freq,
                   learned, sequence_cache, ret, bt, worker>>

\* cancel(), from the /api/optimize/cancel route or from any other thread
Cancel ==
    /\ _cancelled' = TRUE
    /\ worker' = [worker EXCEPT !.queue =
                     [i \in DOMAIN @ |->
                         [@[i] EXCEPT !.cancel_while_queued = TRUE]]]
    /\ opt' = IF opt = OptIdle THEN opt
              ELSE [opt EXCEPT !.cancel_while_iterating = TRUE]
    /\ UNCHANGED <<store, request, transition_matrix, practice_improvement_freq,
                   learned, sequence_cache, ret, bt>>

\* run_backtest of the engine under the search
CallsBacktest(config) ==
    IF opt.engine = "mock"
    THEN \E r \in MockResults :
            bt' = [pc |-> "done", result |-> r, polls |-> <<>>,
                   recommends |-> 0]
    ELSE IF opt.engine = "stub"
    THEN bt' = [pc |-> "done", result |-> StubResult(opt.idx), polls |-> <<>>,
                recommends |-> 0]
    ELSE IF TooFewMonths(get_all_months(store))
    THEN bt' = [pc |-> "done", result |-> BacktestError, polls |-> <<>>,
                recommends |-> 0]
    ELSE \E order \in {practices, Reverse(practices)} :
            Enters(BacktestStart(store, config, order, "flag", "optimizer"))

\* the top of an iteration: the check of the flag, then the call of
\* run_backtest
OptIter ==
    /\ opt.pc = "iter"
    /\ IF _cancelled
       THEN /\ SearchReturns([opt EXCEPT !.cancelled = TRUE])
            /\ bt' = bt
       ELSE /\ opt' = [opt EXCEPT !.pc = "backtest", !.backtests = @ + 1]
            /\ ret' = ret
            /\ CallsBacktest(opt.combinations[opt.idx + 1])
    /\ UNCHANGED <<store, request, transition_matrix, practice_improvement_freq,
                   learned, sequence_cache, _cancelled, worker>>

\* the loop goes on with the next combination, or is left
Continues(o) ==
    IF LoopOver(o) THEN SearchReturns(o)
    ELSE /\ opt' = [o EXCEPT !.idx = @ + 1, !.pc = "iter"]
         /\ ret' = ret

\* the rest of an iteration, once run_backtest has returned or raised
OptResult ==
    /\ opt.pc = "backtest"
    /\ bt.pc = "done"
    /\ bt' = BtIdle
    /\ Continues(Handled(opt, bt.result))
    /\ UNCHANGED <<store, request, transition_matrix, practice_improvement_freq,
                   learned, sequence_cache, _cancelled, worker>>

\* the stores of the searches: ten teams over four months and over three
OptStores == {FirstMonths(BacktestBase, MinBacktestMonths),
              FirstMonths(BacktestBase, MinBacktestMonths - 1)}

InitOpt ==
    /\ store \in OptStores
    /\ transition_matrix = EmptyMatrix
    /\ practice_improvement_freq = EmptyFreq
    /\ learned = FALSE
    /\ sequence_cache = [c \in {} |-> 0]
    /\ ret = Idle
    /\ bt = BtIdle
    /\ opt = OptIdle
    /\ _cancelled = FALSE
    /\ worker = WorkerIdle
    /\ request = RequestIdle

\* searches of the Optimization Engine, the backtests they run and cancel()
NextOpt ==
    \/ Optimize
    \/ WorkerRuns
    \/ FindOptimalConfig
    \/ Cancel
    \/ OptIter
    \/ OptResult
    \/ MonthTop
    \/ PreLearn
    \/ Teams
    \/ PollTeam
    \/ Return

SpecOpt == InitOpt /\ [][NextOpt]_vars

\* ------------------------------------------------------------------ claims
IsCall(op) == ret.op = op
Returned(op) == ret.op = op /\ ret.out.err = "none"
Earliest(st) == get_all_months(st)[1]

\* C1: every tuple (team', similarity, h) returned by find_similar_teams has
\* h strictly less than the baseline month, team' has a vector at month h, and
\* team' is not the target team.
C1_NeighboursArePast ==
    Returned("find_similar_teams") =>
        \A i \in DOMAIN ret.out.val :
            LET e == ret.out.val[i]
            IN /\ e.month < ret.args.target_month
               /\ HasMonth(store[e.team], e.month)
               /\ e.team # ret.args.target_team

\* a call that returned two neighbours although teams other than the target
\* have a vector at the baseline month or later
C1_Witness ==
    /\ Returned("find_similar_teams")
    /\ Len(ret.out.val) >= 2
    /\ \E t \in TeamNames \ {ret.args.target_team}, m \in Months :
          m >= ret.args.target_month /\ HasMonth(store[t], m)

\* the counts a model with cutoff c must hold, stated over the store: the
\* consecutive month pairs of a team that lie strictly before c
ConsecutivePairs(st, c) ==
    {x \in TeamNames \X Months \X Months :
        /\ x[2] < x[3] /\ x[3] < c
        /\ HasMonth(st[x[1]], x[2]) /\ HasMonth(st[x[1]], x[3])
        /\ ~\E m \in Months : x[2] < m /\ m < x[3] /\ HasMonth(st[x[1]], m)}

ImprovedIn(st, x, p) ==
    st[x[1]][x[3]][PracticeIdx(p)] > st[x[1]][x[2]][PracticeIdx(p)]

ExpectedFreq(st, c, p) ==
    Cardinality({x \in ConsecutivePairs(st, c) : ImprovedIn(st, x, p)})

ExpectedEdge(st, c, p, q) ==
    Cardinality({x \in ConsecutivePairs(st, c) :
        /\ ImprovedIn(st, x, p) /\ ImprovedIn(st, x, q)
        /\ PracticeIdx(p) < PracticeIdx(q)
        /\ \A r \in PracticeNames :
              (PracticeIdx(p) < PracticeIdx(r) /\ PracticeIdx(r) < PracticeIdx(q))
                 => ~ImprovedIn(st, x, r)})

CountOf(counter, q) ==
    SeqSum([j \in DOMAIN counter |->
               IF counter[j].to = q THEN counter[j].count ELSE 0])

ModelHasCutoff(tm, freq, st, c) ==
    /\ \A p \in PracticeNames : freq[p] = ExpectedFreq(st, c, p)
    /\ \A p \in PracticeNames, q \in PracticeNames :
          CountOf(tm[p], q) = ExpectedEdge(st, c, p, q)
    /\ \A p \in PracticeNames : \A i \in DOMAIN tm[p], j \in DOMAIN tm[p] :
          /\ tm[p][i].count > 0
          /\ (tm[p][i].to = tm[p][j].to => i = j)

LearnedInRecommend ==
    /\ IsCall("recommend")
    /\ ret.out.err \in {"none", "NoPastMonths", "NoSimilarTeams"}

\* C2: after learn_up_to(c) the transition counts and the improvement
\* frequencies are exactly those of the consecutive month pairs whose two
\* months are both strictly less than c; recommend(team, M) queries, in its
\* sequence step, the model with cutoff M.
C2_ModelIsAsOfCutoff ==
    /\ IsCall("learn_sequences_up_to_month") =>
          /\ learned
          /\ ModelHasCutoff(transition_matrix, practice_improvement_freq,
                            store, ret.args.max_month)
    /\ LearnedInRecommend =>
          ModelHasCutoff(transition_matrix, practice_improvement_freq,
                         store, ret.args.current_month)
    /\ Returned("recommend") =>
          ModelHasCutoff(ret.out.model.tm, ret.out.model.freq,
                         store, ret.args.current_month)

\* learn_up_to(c) that learned an edge while the store also holds an
\* improvement at a month >= c
C2_Witness ==
    /\ IsCall("learn_sequences_up_to_month")
    /\ \E p \in PracticeNames : transition_matrix[p] # <<>>
    /\ \E p \in PracticeNames :
          ExpectedFreq(store, MaxMonth + 1, p)
             > ExpectedFreq(store, ret.args.max_month, p)

\* the store without the vectors at months later than M
StoreUpTo(st, M) ==
    [t \in TeamNames |-> [m \in Months |-> IF m <= M THEN st[t][m] ELSE NoData]]

RecommendAgain(st, o) ==
    recommend(Mapper, st, ret.args.target_team, ret.args.current_month,
              ret.args.kw.top_n, ret.args.kw.k_similar,
              ret.args.kw.allow_first_three_months,
              ret.args.kw.similarity_weight,
              ret.args.kw.recent_improvements_months,
              ret.args.kw.min_similarity_threshold, o)

\* C3: in recommend and in get_recommendation_explanation with baseline M,
\* every month m of a neighbour (t, sim, h) whose vector is compared with t's
\* vector at h satisfies h < m <= M; a month of t later than M contributes
\* neither to a score (the items are those computed on the store cut at M) nor
\* to an evidence entry of the explanation.
C3_ScanWithinBaseline ==
    /\ (Returned("recommend") \/ Returned("get_recommendation_explanation")) =>
          \A s \in ret.out.scanned :
              /\ s.similar_at_month < s.month
              /\ s.month <= ret.args.current_month
              /\ HasMonth(store[s.team], s.month)
    /\ Returned("recommend") =>
          ret.out.items =
             RecommendAgain(StoreUpTo(store, ret.args.current_month),
                            ret.args.kw.order).items
    /\ Returned("get_recommendation_explanation") =>
          \A i \in DOMAIN ret.out.similar_teams_list :
              LET e == ret.out.similar_teams_list[i]
              IN /\ e.similar_at_month < e.month
                 /\ e.month <= ret.args.current_month

\* recommend scanned a neighbour that has, right after a scanned month, a
\* month later than the baseline within the look-ahead window
C3_Witness ==
    /\ Returned("recommend")
    /\ ret.out.items # <<>>
    /\ \E s \in ret.out.scanned :
          \E m \in Months :
             /\ m > ret.args.current_month
             /\ HasMonth(store[s.team], m)
             /\ \E p \in PIdx :
                   store[s.team][m][p] > store[s.team][s.similar_at_month][p]

\* C4: find_similar_teams never returns two entries with the same team name,
\* and the entry kept for a team carries the maximum cosine similarity over
\* that team's months earlier than the baseline that pass minSimilarity.
C4_DedupKeepsBest ==
    Returned("find_similar_teams") =>
        LET val == ret.out.val
            target_vector ==
                store[ret.args.target_team][ret.args.target_month]
        IN /\ \A i \in DOMAIN val, j \in DOMAIN val :
                 val[i].team = val[j].team => i = j
           /\ \A i \in DOMAIN val :
                 /\ val[i].similarity =
                       cosine_similarity(target_vector,
                                         store[val[i].team][val[i].month])
                 /\ val[i].similarity >= ret.args.min_similarity
                 /\ \A m \in Months :
                       (m < ret.args.target_month
                          /\ HasMonth(store[val[i].team], m))
                       => cosine_similarity(target_vector,
                                            store[val[i].team][m])
                             <= val[i].similarity

\* a returned team has two earlier months that pass the threshold with
\* different similarities, the later one being the better
C4_Witness ==
    /\ Returned("find_similar_teams")
    /\ \E i \in DOMAIN ret.out.val :
          \E m \in Months :
             LET e == ret.out.val[i]
                 c == cosine_similarity(
                         store[ret.args.target_team][ret.args.target_month],
                         store[e.team][m])
             IN /\ m < e.month
                /\ HasMonth(store[e.team], m)
                /\ c >= ret.args.min_similarity
                /\ c < e.similarity

\* C5: the list returned by recommend has at most topN items, is sorted by
\* descending score, and every item has score in [0,1] and current_level in
\* [0,1].
C5_ListBounds ==
    Returned("recommend") =>
        LET items == ret.out.items
        IN /\ Len(items) <= ret.args.kw.top_n
           /\ \A i \in DOMAIN items :
                 /\ items[i].score_den > 0
                 /\ 0 <= items[i].score_num
                 /\ items[i].score_num <= items[i].score_den
                 /\ items[i].current_level \in 0..MaxLevel
           /\ \A i \in DOMAIN items, j \in DOMAIN items :
                 i < j =>
                    /\ items[i].score_den = items[j].score_den
                    /\ items[i].score_num >= items[j].score_num

NotMaxed(p) ==
    store[ret.args.target_team][ret.args.current_month][PracticeIdx(p)]
       < MaxLevel

\* more practices were scored and kept than topN allows, with distinct scores
C5_Witness ==
    /\ Returned("recommend")
    /\ Len(ret.out.items) = ret.args.kw.top_n
    /\ Cardinality({p \in DOMAIN ret.out.practices_scores : NotMaxed(p)})
          > ret.args.kw.top_n
    /\ \E p \in DOMAIN ret.out.practices_scores,
          q \in DOMAIN ret.out.practices_scores :
          ret.out.practices_scores[p] < ret.out.practices_scores[q]

\* C6: no item of a list returned by recommend names a practice whose value
\* in the team's baseline-month vector is >= 1.0.
C6_NoMaxedPractice ==
    Returned("recommend") =>
        \A i \in DOMAIN ret.out.items :
            /\ NotMaxed(ret.out.items[i].practice)
            /\ ret.out.items[i].current_level < MaxLevel

\* a practice at the maximum level received a positive combined score
C6_Witness ==
    /\ Returned("recommend")
    /\ ret.out.items # <<>>
    /\ \E p \in DOMAIN ret.out.practices_scores :
          ~NotMaxed(p) /\ ret.out.practices_scores[p] > 0

\* C7: the combined score of every practice before the final normalization
\* is similarityWeight x normSim + (1 - similarityWeight) x normSeq, with the
\* similarityWeight passed by the caller (all three terms over the common
\* denominator SimScale x denSim x denSeq).
C7_CallerWeightUsed ==
    Returned("recommend") =>
        \A p \in DOMAIN ret.out.practices_scores :
            ret.out.practices_scores[p] =
                ret.args.kw.similarity_weight
                    * ret.out.norm_sim[p].num * ret.out.norm_seq[p].den
                + (SimScale - ret.args.kw.similarity_weight)
                    * ret.out.norm_seq[p].num * ret.out.norm_sim[p].den

PassedValidation ==
    /\ IsCall("recommend")
    /\ ret.out.err \notin {"TeamNotFound", "NoDataForMonth"}

C9_OverrideReturnsList ==
    (/\ PassedValidation
     /\ ret.args.kw.allow_first_three_months
     /\ ret.args.current_month = Earliest(store))
    => ret.out.err = "none"

\* C10: recommend returns the same practices in the same order with the same
\* scores whatever order the unordered practice sets are iterated in.
C10_OrderIndependent ==
    Returned("recommend") =>
        \A o \in Orders : RecommendAgain(store, o).items = ret.out.items

\* C11: a learn_up_to(c) for a cutoff c already in the cache installs the
\* snapshot that the first learn_up_to(c) computed and stored; no step of
\* learn_up_to, learn_all, recommend or get_typical_next_practices changes a
\* stored snapshot or removes a cache key.
C11_CacheIsStable ==
    [][ /\ \A c \in DOMAIN sequence_cache :
              /\ c \in DOMAIN sequence_cache'
              /\ sequence_cache'[c] = sequence_cache[c]
              /\ (/\ ret'.op = "learn_sequences_up_to_month"
                  /\ ret'.args.max_month = c)
                 => /\ transition_matrix' = sequence_cache[c].tm
                    /\ practice_improvement_freq' = sequence_cache[c].freq
        /\ \A c \in DOMAIN sequence_cache' \ DOMAIN sequence_cache :
              sequence_cache'[c] = [tm |-> transition_matrix',
                                    freq |-> practice_improvement_freq']
      ]_vars

\* a cache hit on a non-empty snapshot while the cache holds another cutoff
\* with a different snapshot
C11_Witness ==
    /\ IsCall("learn_sequences_up_to_month")
    /\ ret.hit
    /\ \E p \in PracticeNames :
          sequence_cache[ret.args.max_month].tm[p] # <<>>
    /\ \E c \in DOMAIN sequence_cache :
          sequence_cache[c] # sequence_cache[ret.args.max_month]

\* ---------------------------------------------------------------- run_backtest
IsError(result) == "error" \in DOMAIN result

BacktestReturned == IsCall("run_backtest") /\ ~IsError(ret.out)

\* C12: run_backtest on a store with fewer than 4 distinct months fails with
\* InsufficientData, without a recommend or learn_up_to call, without a poll of
\* the cancellation check and without a per-month result.
C12_TooFewMonths ==
    (IsCall("run_backtest") /\ Len(get_all_months(store)) < 4)
    => /\ IsError(ret.out)
       /\ ret.out.error = "InsufficientData"
       /\ "per_month_results" \notin DOMAIN ret.out
       /\ ret.polls = <<>>
       /\ ret.learns = <<>>
       /\ ret.recommends = 0

\* a run with a cancellation check on ten teams that hold three months
C12_Witness ==
    /\ IsCall("run_backtest")
    /\ Len(get_all_months(store)) = 3
    /\ Cardinality(DOMAIN store) = 10
    /\ ret.args.check = "callable"
    /\ IsError(ret.out)

RECURSIVE DenProduct(_, _)
DenProduct(per_month_results, n) ==
    IF n = 0 THEN 1
    ELSE per_month_results[n].accuracy.den
           * DenProduct(per_month_results, n - 1)

\* the sum of the per-month accuracies times D, a multiple of every denominator
AccuracySumTimes(per_month_results, D) ==
    SeqSum([i \in DOMAIN per_month_results |->
               per_month_results[i].accuracy.num
                 * (D \div per_month_results[i].accuracy.den)])

IsMeanOf(overall_accuracy, per_month_results, D) ==
    overall_accuracy.num * D * Len(per_month_results)
      = overall_accuracy.den * AccuracySumTimes(per_month_results, D)

\* C13: in every result of run_backtest each per-month record has
\* correct <= predictions and accuracy = correct / predictions (0 when
\* predictions = 0), hence within [0,1], and overall_accuracy is the unweighted
\* mean of the per-month accuracies (0 when there is no record).
C13_AccuracyBounds ==
    BacktestReturned =>
        /\ \A i \in DOMAIN ret.out.per_month_results :
              /\ ret.out.per_month_results[i].correct >= 0
              /\ ret.out.per_month_results[i].correct
                   <= ret.out.per_month_results[i].predictions
              /\ ret.out.per_month_results[i].accuracy.den > 0
              /\ IF ret.out.per_month_results[i].predictions = 0
                 THEN ret.out.per_month_results[i].accuracy.num = 0
                 ELSE ret.out.per_month_results[i].accuracy.num
                        * ret.out.per_month_results[i].predictions
                      = ret.out.per_month_results[i].correct
                        * ret.out.per_month_results[i].accuracy.den
              /\ ret.out.per_month_results[i].accuracy.num >= 0
              /\ ret.out.per_month_results[i].accuracy.num
                   <= ret.out.per_month_results[i].accuracy.den
        /\ ret.out.overall_accuracy.den > 0
        /\ IF ret.out.per_month_results = <<>>
           THEN ret.out.overall_accuracy.num = 0
           ELSE IsMeanOf(ret.out.overall_accuracy, ret.out.per_month_results,
                         DenProduct(ret.out.per_month_results,
                                    Len(ret.out.per_month_results)))

\* a result with two months of different accuracy, one of them with some but
\* not all predictions correct
C13_Witness ==
    /\ BacktestReturned
    /\ Len(ret.out.per_month_results) = 2
    /\ ret.out.per_month_results[1].accuracy
         # ret.out.per_month_results[2].accuracy
    /\ ret.out.per_month_results[1].correct > 0
    /\ ret.out.per_month_results[1].correct
         < ret.out.per_month_results[1].predictions

\* the checkpoints of one test month and of all test months, in order
MonthCheckpoints(idx, n_teams) ==
    << [at |-> "month", test_month_idx |-> idx, team_count |-> 0],
       [at |-> "learn", test_month_idx |-> idx, team_count |-> 0] >>
    \o [k \in 1..(n_teams \div 10) |->
           [at |-> "team", test_month_idx |-> idx, team_count |-> 10 * k]]

RECURSIVE Checkpoints(_, _, _)
Checkpoints(idx, n_months, n_teams) ==
    IF idx >= n_months THEN <<>>
    ELSE MonthCheckpoints(idx, n_teams)
           \o Checkpoints(idx + 1, n_months, n_teams)

Checkpoint(poll) ==
    [at |-> poll.at, test_month_idx |-> poll.test_month_idx,
     team_count |-> poll.team_count]

PollsFollow(polls, expected, cancelled) ==
    /\ Len(polls) <= Len(expected)
    /\ \A i \in DOMAIN polls :
          /\ Checkpoint(polls[i]) = expected[i]
          /\ polls[i].result = (cancelled /\ i = Len(polls))
    /\ ~cancelled => Len(polls) = Len(expected)
    /\ cancelled => polls # <<>>

\* C14: run_backtest polls the cancellation check at the top of each test-month
\* iteration, before learning for that month and before every 10th team; the
\* first poll that returns true ends the run with cancelled = true and without
\* another recommend call, learn_up_to call or poll; when the very first poll
\* returns true the result has no per-month record and total_predictions = 0.
C14_Checkpoints ==
    /\ [](( BacktestReturned /\ ret.args.check = "callable") =>
            /\ PollsFollow(ret.polls,
                           Checkpoints(3, Len(ret.months), Len(ret.teams)),
                           ret.out.cancelled)
            /\ Len(ret.learns)
                 = Cardinality({i \in DOMAIN ret.polls :
                                   /\ ret.polls[i].at = "learn"
                                   /\ ~ret.polls[i].result})
            /\ (ret.polls[1].result =>
                  /\ ret.out.per_month_results = <<>>
                  /\ ret.out.total_predictions = 0))
    /\ [][(/\ bt.pc \notin {"idle", "done"}
           /\ bt.check = "callable"
           /\ ret'.op = "run_backtest"
           /\ ret'.out.cancelled)
          => /\ Len(ret'.polls) = Len(bt.polls) + 1
             /\ ret'.learns = bt.learns
             /\ ret'.recommends = bt.recommends
             /\ ret'.out.total_predictions = bt.total_predictions
             /\ bt' = BtIdle
             /\ UNCHANGED <<transition_matrix, practice_improvement_freq,
                            learned, sequence_cache>>]_vars

\* a run cancelled at the check of the tenth team of its second test month
C14_Witness ==
    /\ BacktestReturned
    /\ ret.out.cancelled
    /\ ret.polls[Len(ret.polls)].at = "team"
    /\ Len(ret.out.per_month_results) = 1
    /\ ret.recommends > 0

\* C15: in every result of run_backtest, complete or cancelled at any
\* checkpoint, total_predictions is the sum of predictions and
\* correct_predictions is the sum of correct over per_month_results.
C15_TotalsAreOfCompletedMonths ==
    BacktestReturned =>
        /\ ret.out.total_predictions
             = SeqSum([i \in DOMAIN ret.out.per_month_results |->
                          ret.out.per_month_results[i].predictions])
        /\ ret.out.correct_predictions
             = SeqSum([i \in DOMAIN ret.out.per_month_results |->
                          ret.out.per_month_results[i].correct])

\* find_optimal_config has returned its results dictionary
SearchReturned == ret # Idle /\ ret.op = "find_optimal_config"

\* the entries are in descending order of improvement_gap
SortedByGap(all_results) ==
    \A i \in DOMAIN all_results : \A j \in DOMAIN all_results :
        i < j => ~FracLess(all_results[i].improvement_gap,
                           all_results[j].improvement_gap)

\* C16: whatever the backtests returned, all_results is in descending order of
\* improvement_gap, and when it is not empty optimal_config is the config of
\* its first entry and the reported improvement_gap is the largest
\* improvement_gap of the accepted combinations
C16_Ranking ==
    SearchReturned =>
        /\ SortedByGap(ret.out.all_results)
        /\ ret.out.all_results # <<>> =>
              /\ ret.out.optimal_config = ret.out.all_results[1].config
              /\ \E i \in DOMAIN ret.valid_results :
                    ret.valid_results[i].improvement_gap
                      = ret.out.improvement_gap
              /\ \A i \in DOMAIN ret.valid_results :
                    ~FracLess(ret.out.improvement_gap,
                              ret.valid_results[i].improvement_gap)

\* a search accepted three combinations out of order, two of them with the
\* same, largest gap
C16_Witness ==
    /\ SearchReturned
    /\ Len(ret.out.all_results) = 3
    /\ ret.valid_results # ret.out.all_results
    /\ ret.out.all_results[1].improvement_gap
         = ret.out.all_results[2].improvement_gap
    /\ ret.out.all_results[1].config # ret.out.all_results[2].config
    /\ ret.out.all_results[3].improvement_gap
         # ret.out.all_results[1].improvement_gap

\* the keys of the results dictionary of a search that tested every combination
ResultFields ==
    {"optimal_config", "model_accuracy", "random_baseline", "improvement_gap",
     "improvement_factor", "total_predictions", "correct_predictions",
     "total_combinations_tested", "total_combinations_available",
     "valid_combinations", "all_results", "early_stopped", "cancelled"}

\* the search was left by one of its two cancellation branches, which both
\* set cancelled before the break
EndedByCancellation == SearchReturned /\ ret.out.cancelled

\* C17: a search that ends by cancellation, at the start of a combination or
\* through a cancelled backtest, returns cancelled = true, fewer tested than
\* available combinations, and the result fields of a completed search
C17_CancelledIsPartial ==
    EndedByCancellation =>
        /\ ret.out.cancelled
        /\ ret.out.total_combinations_tested
             < ret.out.total_combinations_available
        /\ DOMAIN ret.out \ {"results_file"} = ResultFields

\* the two rules of the early stop, for a new best found at iteration idx
StopRule(improvement_gap, tested_fraction, threshold, min_tested) ==
    \/ /\ FracLess(threshold, improvement_gap)
       /\ \/ ~FracLess(tested_fraction, min_tested)
          \/ FracLess(ExcellentGap, improvement_gap)
    \/ /\ FracLess(GoodGap, improvement_gap)
       /\ ~FracLess(tested_fraction, HalfTested)

StopRuleAt(new_best, r) ==
    StopRule(new_best.improvement_gap,
             Frac(new_best.idx + 1, Len(r.args.combinations)),
             r.args.early_stop_threshold, r.args.early_stop_min_tested)

LeavesIter == opt.pc = "iter" /\ opt'.pc # "iter"

\* a step of the backtest that a search runs, at one of its cancellation checks
PollsInSearch == bt.pc \in {"month_top", "pre_learn", "poll_team"} /\ bt' # bt

\* the search returns cancelled = true without another call of run_backtest
ReturnsCancelled ==
    /\ opt' = OptIdle
    /\ ret'.op = "find_optimal_config"
    /\ ret'.out.cancelled
    /\ ret'.backtests = opt.backtests

\* C19: cancel() sets the flag and the start of a search clears it, so that a
\* cancel() before the start does not cancel the search; once cancel() was
\* called during a search the flag stays set, and the next checkpoint (the top
\* of an iteration, or a check inside the running backtest) ends the search
\* with cancelled = true and without another backtest
C19_CancelAndReset ==
    /\ [][(opt = OptIdle /\ opt' # OptIdle) => ~_cancelled']_vars
    /\ [](opt # OptIdle /\ opt.cancel_while_iterating => _cancelled)
    /\ [](SearchReturned /\ ret.engine = "real" /\ ret.out.cancelled
            => ret.cancel_while_iterating)
    /\ [][LeavesIter /\ _cancelled => ReturnsCancelled /\ bt' = bt]_vars
    /\ [][PollsInSearch /\ _cancelled
            => /\ bt'.pc = "done"
               /\ bt'.result.cancelled
               /\ bt'.recommends = bt.recommends
               /\ opt' = opt]_vars
    /\ [][opt.pc = "backtest" /\ bt.pc = "done" /\ bt' # bt
             /\ "cancelled" \in DOMAIN bt.result /\ bt.result.cancelled
            => ReturnsCancelled]_vars

\* a search that started with the flag set ran a backtest on the real engine
\* and was then cancelled inside or after it
C19_Witness ==
    /\ SearchReturned
    /\ ret.engine = "real"
    /\ ret.flag_at_start
    /\ ret.cancel_while_iterating
    /\ ret.out.cancelled
    /\ ret.backtests >= 1

\* C20: when cancel() was called after the optimize request had been handed to
\* the executor and before the worker started the search, the worker does not
\* overwrite the flag and the search returns cancelled = true
C20_CancelSurvivesHandOver ==
    SearchReturned /\ ret.via = "route" /\ ret.cancel_while_queued
        => ret.out.cancelled

\* the number of the team's own months from month h to month m
StepsAfter(history, h, m) ==
    IndexOf(HistoryMonths(history), m) - IndexOf(HistoryMonths(history), h)

\* C21: in recommend with similar_teams_lookahead_months = L, every month of a
\* neighbour that is compared with the neighbour's historical month lies at
\* most L of the neighbour's months after it, and every month of the
\* neighbour within L steps and not later than the baseline is compared
C21_LookaheadBoundsScan ==
    Returned("recommend") /\ ret.out.err = "none" =>
        /\ \A s \in ret.out.scanned :
              StepsAfter(store[s.team], s.similar_at_month, s.month)
                <= ret.args.kw.similar_teams_lookahead_months
        /\ \A i \in DOMAIN ret.out.similar_teams :
              \A m \in Months :
                 /\ HasMonth(store[ret.out.similar_teams[i].team], m)
                 /\ m > ret.out.similar_teams[i].month
                 /\ m <= ret.args.current_month
                 /\ StepsAfter(store[ret.out.similar_teams[i].team],
                               ret.out.similar_teams[i].month, m)
                      <= ret.args.kw.similar_teams_lookahead_months
                 => [team |-> ret.out.similar_teams[i].team,
                     similar_at_month |-> ret.out.similar_teams[i].month,
                     month |-> m] \in ret.out.scanned

\* C22: recommend normalises by the largest combined score of the practices
\* that are left after the practices at maximum maturity are dropped: when
\* the returned list is not empty and a practice that is left has a positive
\* combined score, the score of the first item is exactly 1
C22_FirstScoreIsOne ==
    Returned("recommend") /\ ret.out.err = "none" /\ ret.out.items # <<>> =>
        (ret.out.items[1].score_num > 0
            => ret.out.items[1].score_num = ret.out.items[1].score_den)

\* the counters of a Sequence Mapper that has just been constructed
FreshMapper == MapperState(EmptyMatrix, EmptyFreq, FALSE, sequence_cache)

\* C23: after any earlier learning calls, learn_sequences leaves the counts of
\* every consecutive month pair of every team, each pair counted once: the
\* counters are those of learn_sequences on a fresh Sequence Mapper
C23_LearnAllIsIdempotent ==
    IsCall("learn_sequences") =>
        /\ transition_matrix
             = learn_sequences(FreshMapper, store).transition_matrix
        /\ practice_improvement_freq
             = learn_sequences(FreshMapper, store).practice_improvement_freq

\* run_backtest has returned a result that was not cancelled
BacktestCompleted == BacktestReturned /\ ~ret.out.cancelled

\* month b is the team's latest own month strictly before month T
LatestBefore(st, team, b, T) ==
    /\ b < T
    /\ HasMonth(st[team], b)
    /\ \A m \in DOMAIN st[team] : b < m /\ m < T => ~HasMonth(st[team], m)

\* C24: an uncancelled run_backtest over the sorted months m1 < ... < mn holds
\* one record for each of m4 ... mn in ascending order, whose train_months are
\* all the months before it; every recommend call for test month T takes the
\* team's latest own month before T as baseline and reads no vector of a
\* neighbour at a month later than that baseline
C24_RollingOrigin ==
    BacktestCompleted =>
        /\ Len(ret.out.per_month_results) = Len(get_all_months(store)) - 3
        /\ \A i \in DOMAIN ret.out.per_month_results :
              /\ ret.out.per_month_results[i].month
                   = get_all_months(store)[i + 3]
              /\ ret.out.per_month_results[i].train_months
                   = SubSeq(get_all_months(store), 1, i + 2)
        /\ \A j \in DOMAIN ret.calls :
              /\ HasMonth(store[ret.calls[j].team], ret.calls[j].test_month)
              /\ LatestBefore(store, ret.calls[j].team, ret.calls[j].baseline,
                              ret.calls[j].test_month)
              /\ \A s \in ret.calls[j].scanned :
                    s.month <= ret.calls[j].baseline
              /\ \A k \in DOMAIN ret.calls[j].similar_teams :
                    ret.calls[j].similar_teams[k].month
                      < ret.calls[j].baseline

\* a run over two test months in which a team that misses the month before a
\* test month was given a recommendation from its earlier month
C24_Witness ==
    /\ BacktestCompleted
    /\ Len(ret.out.per_month_results) = 2
    /\ \E j \in DOMAIN ret.calls :
          /\ ret.calls[j].baseline < ret.calls[j].test_month - 1
          /\ ret.calls[j].err = "none"
          /\ ret.calls[j].scanned # {}

\* the test month and the team's next one or two own months
CaseMonths(st, team, T) ==
    {m \in DOMAIN st[team] :
        /\ HasMonth(st[team], m)
        /\ m >= T
        /\ Cardinality({x \in DOMAIN st[team] :
                           HasMonth(st[team], x) /\ T <= x /\ x < m}) <= 2}

\* the practices that increased from the baseline b to one of these months
Increased(st, team, b, T) ==
    {p \in PracticeNames :
        \E m \in CaseMonths(st, team, T) :
            st[team][m][PracticeIdx(p)] > st[team][b][PracticeIdx(p)]}

\* the recommend calls of a case
CallsOf(calls, c) ==
    {j \in DOMAIN calls :
        calls[j].team = c.team /\ calls[j].test_month = c.test_month}

\* what the case c with baseline b added to the counters
CaseCounted(st, calls, c, b) ==
    IF Increased(st, c.team, b, c.test_month) = {}
    THEN /\ c.predictions = 0 /\ c.total_predictions = 0
         /\ c.correct = 0 /\ c.total_correct = 0
         /\ c.sizes = 0
         /\ CallsOf(calls, c) = {}
    ELSE /\ Cardinality(CallsOf(calls, c)) = 1
         /\ \A j \in CallsOf(calls, c) :
               calls[j].err = "none" =>
                  /\ c.predictions = 1 /\ c.total_predictions = 1
                  /\ c.correct
                       = (IF calls[j].recommended
                               \cap Increased(st, c.team, b, c.test_month)
                               # {} THEN 1 ELSE 0)
                  /\ c.total_correct = c.correct

\* C25: a (team, test month) case of run_backtest in which no practice
\* increased from the baseline to the test month or to the team's next one or
\* two months adds nothing to predictions, correct and the recorded
\* improvement sizes; otherwise, when recommend returns, predictions grows by
\* 1 and correct grows by 1 exactly when a recommended practice is among the
\* practices that increased
C25_CaseAccounting ==
    BacktestReturned =>
        \A i \in DOMAIN ret.cases :
            \A b \in DOMAIN store[ret.cases[i].team] :
                (/\ HasMonth(store[ret.cases[i].team], ret.cases[i].test_month)
                 /\ LatestBefore(store, ret.cases[i].team, b,
                                 ret.cases[i].test_month))
                => CaseCounted(store, ret.calls, ret.cases[i], b)

\* a run with a case without any increase, a case whose only increase shows
\* two months after the test month, a correct and an incorrect prediction
C25_Witness ==
    /\ BacktestReturned
    /\ \E i \in DOMAIN ret.cases :
          /\ ret.cases[i].sizes = 0
          /\ \E b \in DOMAIN store[ret.cases[i].team] :
                /\ HasMonth(store[ret.cases[i].team], ret.cases[i].test_month)
                /\ LatestBefore(store, ret.cases[i].team, b,
                                ret.cases[i].test_month)
    /\ \E i \in DOMAIN ret.cases :
          /\ ret.cases[i].predictions = 1
          /\ \E b \in DOMAIN store[ret.cases[i].team] :
                /\ LatestBefore(store, ret.cases[i].team, b,
                                ret.cases[i].test_month)
                /\ \A p \in PracticeNames : \A m \in DOMAIN store[ret.cases[i].team] :
                      (/\ HasMonth(store[ret.cases[i].team], m)
                       /\ m >= ret.cases[i].test_month
                       /\ m <= ret.cases[i].test_month + 1)
                      => store[ret.cases[i].team][m][PracticeIdx(p)]
                           <= store[ret.cases[i].team][b][PracticeIdx(p)]
    /\ \E i \in DOMAIN ret.cases :
          ret.cases[i].predictions = 1 /\ ret.cases[i].correct = 1
    /\ \E i \in DOMAIN ret.cases :
          ret.cases[i].predictions = 1 /\ ret.cases[i].correct = 0

\* C28: in every result of run_backtest the number of recorded
\* improvement-set sizes, over which avg_improvements_per_case and the
\* random baseline are taken, equals total_predictions
C28_SizesMatchPredictions ==
    BacktestReturned =>
        ret.improvements_per_case = ret.out.total_predictions

\* C29: in every result of find_optimal_config, total_combinations_tested
\* does not exceed the number of combinations for which run_backtest was
\* invoked
C29_TestedWereRun ==
    SearchReturned =>
        ret.out.total_combinations_tested <= ret.backtests

\* the backtest of the i-th invoked combination failed
Failed(o) == o.raised \/ o.error

\* ... or it returned an uncancelled result of at least min_accuracy
Accepted(o, min_accuracy) ==
    /\ ~o.raised /\ ~o.error /\ ~o.cancelled
    /\ ~FracLess(o.overall_accuracy, min_accuracy)

\* the iteration after the i-th one was entered: its backtest was invoked, or
\* the flag was seen at its top
NextEntered(r, i) ==
    \/ i = Len(r.args.combinations)
    \/ Len(r.outcomes) > i
    \/ r.out.cancelled /\ r.out.total_combinations_tested = i + 1

OfferedMonth ==
    /\ IsCall("get_recommendations")
    /\ get_team_months(store, ret.args.team_name).err = "none"
    /\ \E i \in DOMAIN get_team_months(store, ret.args.team_name).val :
          get_team_months(store, ret.args.team_name).val[i] = ret.args.month

\* C30: for every month that get_team_months(team) returns,
\* get_recommendations(team, month) does not fail with the first-month error
\* of recommend: its baseline is never the earliest month of the store
C30_OfferedMonthsAreServed ==
    OfferedMonth =>
        /\ ret.out.error = "none"
        /\ ret.out.raised # "FirstMonth"
        /\ ret.out.baseline # get_all_months(store)[1]

\* ------------------------------------ a recommend call on the request thread
\* recommend raises before its learn step
Rejected(st, target_team, current_month) ==
    \/ ~TeamKnown(st, target_team)
    \/ ~HasMonth(st[target_team], current_month)
    \/ FirstMonthCheck(get_all_months(st), current_month)

RequestDone(target_team, current_month, out) ==
    [pc |-> "done", target_team |-> target_team,
     current_month |-> current_month, out |-> [out EXCEPT !.ms = <<>>]]

\* the request thread runs recommend with its keyword defaults up to the end
\* of step 0, learn_sequences_up_to_month(current_month)
RequestLearns ==
    /\ request = RequestIdle
    /\ \E t \in TeamNames, m \in Months :
          IF Rejected(store, t, m)
          THEN /\ request' = RequestDone(t, m,
                      recommend(Mapper, store, t, m, DefaultTopN, DefaultK,
                                FALSE, (6 * SimScale) \div 10, DefaultRecent,
                                (3 * SimScale) \div 4, practices))
               /\ UNCHANGED <<transition_matrix, practice_improvement_freq,
                              learned, sequence_cache>>
          ELSE /\ SetMapper(learn_sequences_up_to_month(Mapper, store, m))
               /\ request' = [pc |-> "learned", target_team |-> t,
                              current_month |-> m]
    /\ UNCHANGED <<store, ret, bt, opt, _cancelled, worker>>

\* steps 1 to 5 of that call: they read the counters that the mapper holds now
RequestScores ==
    /\ request.pc = "learned"
    /\ request' = RequestDone(request.target_team, request.current_month,
           RecommendWith(Mapper,
                         find_similar_teams(store, request.target_team,
                                            request.current_month, DefaultK,
                                            (3 * SimScale) \div 4),
                         store, store[request.target_team],
                         request.current_month, DefaultTopN,
                         (6 * SimScale) \div 10, DefaultRecent, practices))
    /\ UNCHANGED <<store, transition_matrix, practice_improvement_freq,
                   learned, sequence_cache, ret, bt, opt, _cancelled, worker>>

\* the route sends the response
RequestReturns ==
    /\ request.pc = "done"
    /\ request' = RequestIdle
    /\ UNCHANGED <<store, transition_matrix, practice_improvement_freq,
                   learned, sequence_cache, ret, bt, opt, _cancelled, worker>>

\* the first three teams of the ten over four months
ServeStore ==
    [t \in TeamNames |-> FirstMonths(BacktestBase, MinBacktestMonths)[t]]

InitServe ==
    /\ store = ServeStore
    /\ transition_matrix = EmptyMatrix
    /\ practice_improvement_freq = EmptyFreq
    /\ learned = FALSE
    /\ sequence_cache = [c \in {} |-> 0]
    /\ ret = Idle
    /\ bt = BtIdle
    /\ opt = OptIdle
    /\ _cancelled = FALSE
    /\ worker = WorkerIdle
    /\ request = RequestIdle

\* the /api/recommendations requests of the event loop while the executor's
\* worker thread runs the searches of /api/optimize; with fewer than ten
\* teams the loop over teams has no cancellation check
NextServe ==
    \/ Optimize
    \/ WorkerRuns
    \/ OptIter
    \/ OptResult
    \/ MonthTop
    \/ PreLearn
    \/ Teams
    \/ Return
    \/ RequestLearns
    \/ RequestScores
    \/ RequestReturns

SpecServe == InitServe /\ [][NextServe]_vars

\* the counters that learn_sequences_up_to_month(c) leaves in a new mapper
Snapshot(st, c) ==
    learn_sequences_up_to_month(
        MapperState(EmptyMatrix, EmptyFreq, FALSE, [x \in {} |-> 0]), st, c)

\* no count of the matrix tm is above the count of the snapshot for cutoff c
WithinSnapshot(tm, snapshot) ==
    \A p \in PracticeNames, q \in PracticeNames :
        CountOf(tm[p], q) <= CountOf(snapshot.transition_matrix[p], q)

\* C27: the transition model that a recommend(team, M) call on the request
\* thread reads in its sequence step is the snapshot for cutoff M, whatever
\* the worker thread does in between: it holds no count learned from a month
\* >= M
C27_RequestReadsItsCutoff ==
    (request.pc = "done" /\ request.out.err = "none") =>
        WithinSnapshot(request.out.model.tm,
                       Snapshot(store, request.current_month))

====
